---------------------------- MODULE Spec2Model ----------------------------
(***************************************************************************)
(* Verification model of the podcast qualification pipeline.               *)
(*                                                                         *)
(* Part 1: the resumable verification cache and its runner,                *)
(* AutoVerifier in auto_verify_stage2.py (run_verification, _load_cache,   *)
(* _save_cache, _get_cache_key, get_unverified_candidates,                 *)
(* verify_candidate, show_summary and the interrupt handler of main),      *)
(* under Spec.                                                             *)
(*                                                                         *)
(* Part 2: the feed analysis of stage 2, RSSAnalyzer in                    *)
(* stage2_rss_analyzer.py (analyze_podcast_rss, _parse_episode,            *)
(* analyze_candidates), under SpecRss.                                     *)
(*                                                                         *)
(* Part 3: the two classifiers, SingleAuthorFilter in                      *)
(* stage3_single_author_filter.py and SingleAuthorAnalyzer in              *)
(* auto_verify_stage2.py: their author-field functions and name heuristics *)
(* under SpecAuthor, their verdicts and filter_candidates under            *)
(* SpecClassify.                                                           *)
(*                                                                         *)
(* In Part 1 strings are sequences of word tokens; in the other parts they *)
(* are strings, read character by character.  JSON values read from the    *)
(* input are records [type, val]: a string, null or a number.  Scores of   *)
(* Part 1 are integers in thousandths (1000 = 1.0); the scores of Part 3   *)
(* are doubles and fractions.  Candidate indices are the 0-based indices   *)
(* of the Python code; candidates[i + 1] is candidate i.                   *)
(***************************************************************************)
EXTENDS Integers, Sequences, FiniteSets, TLC

\* ------------------------------------------------------------------ bounds
\* Longest candidate list.
MaxCand == 11
\* run_verification invocations (process starts and repeated calls).
MaxRuns == 2
\* Failing writes of the cache file in one behaviour.
MaxWriteFails == 1
\* Entries a feed holds in one year.
MaxPerYear == 2
\* Longest list of candidates given to analyze_candidates.
MaxFeeds == 2
\* Calls of the author-field functions and name heuristics on one author.
MaxAuthorCalls == 2
\* Longest list of candidates drawn freely from the short pool.
MaxBatch == 3
\* Longest input list the upstream stage writes between two processes.
MaxList == 3
\* Rewrites of the input file between two processes.
MaxEdits == 1

\* -------------------------------------------------------- program constants
\* "Save cache every 10 candidates": total_processed % 10 == 0.
SaveEvery == 10

\* ------------------------------------------------------------- JSON values
Str(s) == [type |-> "str", val |-> s]
Null == [type |-> "null", val |-> <<>>]
Num(d) == [type |-> "num", val |-> d]

\* Python truthiness of a JSON value: None, "" and 0 are falsy.
Truthy(v) ==
  CASE v.type = "null" -> FALSE
    [] v.type = "str" -> v.val # <<>>
    [] OTHER -> v.val # <<"0">>

\* str(v) as an f-string formats it: None prints as "None".
Format(v) == IF v.type = "null" THEN <<"None">> ELSE v.val

\* v[:n] raises TypeError unless v is a string.
Subscriptable(v) == v.type = "str"

Range(s) == {s[k] : k \in DOMAIN s}

\* str.lower() on the tokens of the model's vocabulary.
LowerTok(t) ==
  CASE t = "Jane" -> "jane"
    [] t = "Doe" -> "doe"
    [] t = "The" -> "the"
    [] t = "Crew" -> "crew"
    [] t = "Solo" -> "solo"
    [] t = "Talks" -> "talks"
    [] t = "Old" -> "old"
    [] t = "Panel" -> "panel"
    [] OTHER -> t

Lower(s) == [k \in DOMAIN s |-> LowerTok(s[k])]

\* ------------------------------------------------------------- candidates
\* One record of the input file: {"candidate": {title, author, description}}.
Cand(t, a, d) == [title |-> t, author |-> a, description |-> d]

\* A well-formed single-author candidate.
OkCand == Cand(Str(<<"Solo", "Talks">>), Str(<<"Jane", "Doe">>), Str(<<"monologue">>))
\* A well-formed group candidate.
CrewCand == Cand(Str(<<"Panel", "Talks">>), Str(<<"The", "Crew">>), Str(<<"panel">>))
\* "title": null in the input file.
NullTitleCand == Cand(Null, Str(<<"Jane", "Doe">>), Str(<<"monologue">>))
\* "author": 7 in the input file.
NumAuthorCand == Cand(Str(<<"Solo", "Talks">>), Num(<<"7">>), Str(<<"monologue">>))

\* The candidate list of length n whose candidate at index pre has a numeric
\* author, whose candidate at index post has a null title and whose other
\* candidates alternate between the two well-formed ones (-1: no such index).
MkCandidates(n, pre, post) ==
  [k \in 1..n |->
     IF k - 1 = pre THEN NumAuthorCand
     ELSE IF k - 1 = post THEN NullTitleCand
     ELSE IF k % 3 = 0 THEN CrewCand ELSE OkCand]

\* The candidate lists of the model, as <<n, pre, post>>: the empty list,
\* short lists with and without malformed candidates, and lists long enough
\* for the save every 10 candidates, the second with the null title at the
\* candidate that is processed tenth.
ListShapes ==
  {<<0, -1, -1>>, <<2, -1, -1>>, <<3, 1, 0>>,
   <<MaxCand, -1, -1>>, <<MaxCand, 1, SaveEvery>>}
\* The batch sizes tried on a list of n candidates: one candidate a batch
\* (short lists), several batches, and one batch for the whole list.
BatchSizes(n) == IF n <= 3 THEN {1, 2, MaxCand + 1} ELSE {2, MaxCand + 1}

\* ----------------------------------------------------- SingleAuthorAnalyzer
\* The indicators of self.org_indicators that occur in the vocabulary.
org_indicators == {"inc", "team", "crew"}
\* The indicators of self.multi_person_indicators that occur in the vocabulary.
multi_person_indicators == {"&", "team", "crew"}
single_host_positive == {"solo", "monologue"}
multi_host_terms == {"team", "panel"}
ambiguous_terms == {"interview"}
non_personal_terms == {"podcast", "crew", "team"}
title_words == {"dr.", "prof."}
CapitalisedAlpha == {"Jane", "Doe", "The", "Crew", "Solo", "Talks", "Old", "Panel"}

Min(a, b) == IF a < b THEN a ELSE b
Max(a, b) == IF a > b THEN a ELSE b

\* How many indicators of a set occur in a lower-cased text.
Hits(indicators, text) == Cardinality(indicators \cap Range(text))

looks_like_personal_name(name) ==
  IF name = <<>> THEN FALSE
  ELSE LET stripped == IF LowerTok(name[1]) \in title_words /\ Len(name) - 1 >= 2
                       THEN Tail(name) ELSE name
       IN /\ 2 <= Len(stripped) /\ Len(stripped) <= 4
          /\ \A k \in DOMAIN stripped : stripped[k] \in CapitalisedAlpha
          /\ Range(Lower(name)) \cap non_personal_terms = {}

\* analyze_author_field: [raised, score]; author.lower() raises
\* AttributeError for a truthy value that is not a string.
analyze_author_field(author) ==
  IF ~Truthy(author) THEN [raised |-> FALSE, score |-> 0]
  ELSE IF author.type # "str" THEN [raised |-> TRUE, score |-> 0]
  ELSE LET author_lower == Lower(author.val)
           org_penalty == 300 * Hits(org_indicators, author_lower)
           multi_penalty == 400 * Hits(multi_person_indicators, author_lower)
           s1 == 1000 - Min(org_penalty, 800) - Min(multi_penalty, 900)
           s2 == IF looks_like_personal_name(author.val) THEN s1 + 300 ELSE s1
       IN [raised |-> FALSE, score |-> Max(0, Min(1000, s2))]

\* analyze_content: the score as a fraction [num, den] (positive / total),
\* floored at 0.1; 0.5 when no indicator fires.
analyze_content(title, description) ==
  LET combined_text == Lower(Format(title) \o Format(description))
      positive_count == Hits(single_host_positive, combined_text)
      negative_count == Hits(multi_host_terms, combined_text)
      ambiguous_count == Hits(ambiguous_terms, combined_text)
      den2 == 2 * positive_count + 2 * negative_count + ambiguous_count
  IN IF den2 = 0 THEN [num |-> 1, den |-> 2]
     ELSE IF 10 * 2 * positive_count < den2 THEN [num |-> 1, den |-> 10]
     ELSE [num |-> 2 * positive_count, den |-> den2]

\* is_single_author: overall = 0.7 * author + 0.3 * content, single iff
\* overall > 0.6; the confidence is kept in thousandths, rounded down.
is_single_author(candidate) ==
  LET a == analyze_author_field(candidate.author)
      c == analyze_content(candidate.title, candidate.description)
  IN [raised |-> a.raised,
      is_single |-> 7 * a.score * c.den + 3000 * c.num > 6000 * c.den,
      confidence |-> (7 * a.score * c.den + 3000 * c.num) \div (10 * c.den)]


\* ------------------------------------------------------------ AutoVerifier
\* decimal digits of a candidate index, as f"{index}" prints it
DigitTok == <<"0", "1", "2", "3", "4", "5", "6", "7", "8", "9">>

RECURSIVE Decimal(_)
Decimal(n) ==
  IF n < 10 THEN <<DigitTok[n + 1]>>
  ELSE Decimal(n \div 10) \o <<DigitTok[(n % 10) + 1]>>

\* Mutant: f"{title}_{author}", the key without the index.
get_cache_key_no_index(cands, index) ==
  IF index >= Len(cands) THEN <<>>
  ELSE Format(cands[index + 1].title) \o <<"_">> \o Format(cands[index + 1].author)

\* Mutant: the key counts the index from the end of the list.
get_cache_key_from_end(cands, index) ==
  IF index >= Len(cands) THEN <<>>
  ELSE Decimal(Len(cands) - 1 - index) \o <<"_">> \o Format(cands[index + 1].title)
         \o <<"_">> \o Format(cands[index + 1].author)

\* _get_cache_key: f"{index}_{title}_{author}", "" past the end of the list.
get_cache_key(cands, index) ==
  IF index >= Len(cands) THEN <<>>
  ELSE Decimal(index) \o <<"_">> \o Format(cands[index + 1].title)
         \o <<"_">> \o Format(cands[index + 1].author)

\* The mapping with no entry: {}.
EmptyCache == <<>>

\* self.cache[key] = value
Put(c, key, value) ==
  [x \in DOMAIN c \cup {key} |-> IF x = key THEN value ELSE c[x]]

\* The cache file: missing, unreadable (open raises), corrupt (not valid
\* JSON, such as a truncated dump) or a JSON object.
FileOf(kind, data) == [kind |-> kind, data |-> data]
NoFile == FileOf("missing", EmptyCache)
UnreadableFile == FileOf("unreadable", EmptyCache)
CorruptFile == FileOf("corrupt", EmptyCache)
JsonFile(c) == FileOf("json", c)

\* Mutant: no try block around open and json.load.
load_cache_no_try(f) ==
  IF f.kind = "missing" THEN [raised |-> FALSE, cache |-> EmptyCache]
  ELSE IF f.kind = "json" THEN [raised |-> FALSE, cache |-> f.data]
  ELSE [raised |-> TRUE, cache |-> EmptyCache]

\* _load_cache: [raised, cache]; every failure of open or json.load is
\* caught and gives {}.
load_cache(f) ==
  IF f.kind = "missing" THEN [raised |-> FALSE, cache |-> EmptyCache]
  ELSE IF f.kind = "json" THEN [raised |-> FALSE, cache |-> f.data]
  ELSE [raised |-> FALSE, cache |-> EmptyCache]

\* WebVerifier._load_cache: the same code on web_verification_cache.json.
web_load_cache(f) ==
  IF f.kind = "missing" THEN [raised |-> FALSE, cache |-> EmptyCache]
  ELSE IF f.kind = "json" THEN [raised |-> FALSE, cache |-> f.data]
  ELSE [raised |-> FALSE, cache |-> EmptyCache]

\* get_unverified_candidates: the indices whose key is not in the cache,
\* in list order.
RECURSIVE unverified_from(_, _, _)
unverified_from(cands, c, index) ==
  IF index >= Len(cands) THEN <<>>
  ELSE (IF get_cache_key(cands, index) \notin DOMAIN c THEN <<index>> ELSE <<>>)
         \o unverified_from(cands, c, index + 1)

\* Mutant: range(1, len(self.candidates)).
get_unverified_skip_first(cands, c) == unverified_from(cands, c, 1)

\* Mutant: the cache is not consulted.
get_unverified_ignore_cache(cands, c) == unverified_from(cands, EmptyCache, 0)

get_unverified_candidates(cands, c) == unverified_from(cands, c, 0)

\* verify_candidate: [raised, result]; the result is {} (falsy) past the end
\* of the list.
verify_candidate(cands, index) ==
  LET candidate == cands[index + 1]
      r == is_single_author(candidate)
  IN [raised |-> r.raised,
      result |-> [index |-> index,
                  title |-> candidate.title,
                  author |-> candidate.author,
                  is_single_author |-> r.is_single,
                  confidence |-> r.confidence,
                  verification_method |-> "automated_analysis"]]

\* The progress line of run_verification: result["title"][:50] and
\* result["author"][:30] raise TypeError for a value that is not a string.
progress_raises(result) ==
  ~Subscriptable(result.title) \/ ~Subscriptable(result.author)

\* The save every 10 candidates: total_processed % 10 == 0.
periodic_save_due(total) == total % SaveEvery = 0

\* ------------------------------------------------------------------- state
VARIABLES
  candidates,          \* self.candidates
  batch_size,          \* run_verification's batch_size
  file,                \* the cache file on disk
  cache,               \* self.cache
  pc,                  \* where the process is
  unverified_indices,  \* run_verification's local
  batch_start,         \* run_verification's local
  i,                   \* position in batch_indices
  total_processed,     \* run_verification's local
  summary_shown,       \* show_summary was called by this run
  runs,                \* run_verification invocations so far
  write_fails,         \* failed writes so far
  hist,                \* history: what the claims refer back to
  output_file,         \* the file export_single_authors writes
  web,                 \* what feedparser.parse finds at each rss_url
  analyzed_results,    \* analyze_candidates' results
  passed_candidates,   \* analyze_candidates' passed_candidates
  author_text,         \* the string given to the author-field functions
  filter_tool,         \* the SingleAuthorFilter object of stage 3
  analyzer,            \* the SingleAuthorAnalyzer object of the verifier
  calls,               \* the classifier calls made so far, with what they returned
  filtered_results     \* filter_candidates' filtered_results

\* The state of stages 2 and 3, which the verification runner never touches.
stage_vars == <<web, analyzed_results, passed_candidates, author_text, filter_tool,
                analyzer, calls, filtered_results>>

vars == <<candidates, batch_size, file, cache, pc, unverified_indices,
          batch_start, i, total_processed, summary_shown, runs, write_fails,
          hist, output_file, stage_vars>>

\* No feed has been analysed and no classifier object has been built.
StagesIdle ==
  /\ web = <<>>
  /\ analyzed_results = <<>>
  /\ passed_candidates = <<>>
  /\ author_text = ""
  /\ filter_tool = <<>>
  /\ analyzer = <<>>
  /\ calls = <<>>
  /\ filtered_results = <<>>

\* The files a first process can find: none, an unreadable one, a corrupt
\* one, an empty object, the result of an earlier run over the first
\* candidate, and an entry written under the first candidate's key by an
\* earlier version of the analyzer (another verdict).
OldEntry(cands) ==
  [verify_candidate(cands, 0).result EXCEPT
     !.is_single_author = ~@, !.verification_method = "manual"]

InitialFiles(cands) ==
  {NoFile, UnreadableFile, CorruptFile, JsonFile(EmptyCache)}
    \cup (IF Len(cands) > 0 /\ ~verify_candidate(cands, 0).raised
          THEN {JsonFile(Put(EmptyCache, get_cache_key(cands, 0),
                             verify_candidate(cands, 0).result)),
                JsonFile(Put(EmptyCache, get_cache_key(cands, 0),
                             OldEntry(cands)))}
          ELSE {})

NoHist ==
  [start_cache |-> EmptyCache,   \* self.cache when the run started
   attempted |-> {},             \* indices given to verify_candidate
   errors |-> {},                \* indices logged "Error processing candidate"
   persisted |-> EmptyCache,     \* the mapping of the last successful load or save
   save_failed |-> FALSE,        \* a _save_cache call of this run failed
   boot_file |-> "none",         \* the kind of file this process loaded
   first_cache |-> EmptyCache,   \* the cache the first process loaded
   resume |-> "fresh",           \* how the earlier processes ended
   intr |-> "none",              \* where the interrupt arrived
   intr_cache |-> EmptyCache,    \* self.cache when it arrived
   intr_index |-> -1,            \* the candidate being classified then
   start_file |-> NoFile,        \* the cache file when the run started
   loaded |-> FALSE,             \* _load_cache has returned, no run has begun
   prev_ok |-> FALSE,            \* the last run completed without an error
   after_ok |-> FALSE]           \* this run follows such a run

Init ==
  /\ \E shape \in ListShapes :
       candidates = MkCandidates(shape[1], shape[2], shape[3])
  /\ batch_size \in BatchSizes(Len(candidates))
  /\ file \in InitialFiles(candidates)
  /\ cache = EmptyCache
  /\ pc = "off"
  /\ unverified_indices = <<>>
  /\ batch_start = 0
  /\ i = 0
  /\ total_processed = 0
  /\ summary_shown = FALSE
  /\ runs = 0
  /\ write_fails = 0
  /\ hist = NoHist
  /\ output_file = NoFile
  /\ StagesIdle


\* ---------------------------------------------------------------- positions
\* run_verification's statements, in order.
InRun == {"run", "item", "print", "periodic_save", "batch_save", "batch_done",
          "final_save", "summary"}
\* Inside a _save_cache call of run_verification.
InSave == {"periodic_save", "batch_save", "final_save"}
\* The process has ended.
Ended == {"exited", "interrupt_exit", "failed", "crashed"}

\* batch_indices = unverified_indices[batch_start:batch_end]
batch_end == Min(batch_start + batch_size, Len(unverified_indices))
batch_len == batch_end - batch_start
candidate_index == unverified_indices[batch_start + i + 1]

\* What a failing write leaves on disk: open(..., "w") failed and the file
\* is as it was, or the dump failed after the file was truncated.
AfterFailedWrite(f) == {f, CorruptFile}

\* ------------------------------------------------------------------ actions
\* main: AutoVerifier() loads the cache, then run_verification is called.
Start ==
  /\ pc \in {"off"} \cup Ended
  /\ runs < MaxRuns
  /\ LET l == load_cache(file)
     IN /\ cache' = l.cache
        /\ pc' = IF l.raised THEN "failed" ELSE "run"
        /\ hist' = [hist EXCEPT
                      !.persisted = l.cache,
                      !.boot_file = file.kind,
                      !.first_cache = IF pc = "off" THEN l.cache ELSE @,
                      !.resume = IF pc = "off" THEN "fresh"
                                 ELSE IF pc = "crashed" /\ @ = "stopped" THEN "resumed"
                                 ELSE "other",
                      !.intr = "none",
                      !.save_failed = FALSE,
                      !.loaded = TRUE]
  /\ UNCHANGED <<stage_vars, output_file, candidates, batch_size, file, unverified_indices, batch_start,
                 i, total_processed, summary_shown, runs, write_fails>>

\* run_verification, lines 398-407: the unverified indices; nothing to do
\* returns at once.
RunStart ==
  /\ pc = "run"
  /\ unverified_indices' = get_unverified_candidates(candidates, cache)
  /\ pc' = IF unverified_indices' = <<>> THEN "returned" ELSE "item"
  /\ batch_start' = 0
  /\ i' = 0
  /\ total_processed' = 0
  /\ summary_shown' = FALSE
  /\ runs' = runs + 1
  /\ hist' = [hist EXCEPT !.start_cache = cache, !.start_file = file,
                          !.attempted = {}, !.errors = {},
                          !.save_failed = FALSE, !.loaded = FALSE,
                          !.after_ok = hist.prev_ok,
                          !.prev_ok = unverified_indices' = <<>>]
  /\ UNCHANGED <<stage_vars, output_file, candidates, batch_size, file, cache, write_fails>>

\* Lines 419-425: verify_candidate and the cache entry; an exception is
\* logged and the loop goes on.
Verify ==
  /\ pc = "item"
  /\ i < batch_len
  /\ LET r == verify_candidate(candidates, candidate_index)
     IN IF r.raised
        THEN /\ hist' = [hist EXCEPT !.attempted = @ \cup {candidate_index},
                                     !.errors = @ \cup {candidate_index}]
             /\ i' = i + 1
             /\ UNCHANGED <<cache, total_processed, pc>>
        ELSE /\ cache' = Put(cache, get_cache_key(candidates, candidate_index),
                             r.result)
             /\ total_processed' = total_processed + 1
             /\ pc' = "print"
             /\ hist' = [hist EXCEPT !.attempted = @ \cup {candidate_index}]
             /\ UNCHANGED i
  /\ UNCHANGED <<stage_vars, output_file, candidates, batch_size, file, unverified_indices, batch_start,
                 summary_shown, runs, write_fails>>

\* Lines 427-443: the progress line, then the save every 10 candidates; an
\* exception of the progress line is logged and the loop goes on.
Progress ==
  /\ pc = "print"
  /\ LET result == cache[get_cache_key(candidates, candidate_index)]
     IN IF progress_raises(result)
        THEN /\ hist' = [hist EXCEPT !.errors = @ \cup {candidate_index}]
             /\ i' = i + 1
             /\ pc' = "item"
        ELSE IF periodic_save_due(total_processed)
        THEN /\ pc' = "periodic_save"
             /\ UNCHANGED <<i, hist>>
        ELSE /\ i' = i + 1
             /\ pc' = "item"
             /\ UNCHANGED hist
  /\ UNCHANGED <<stage_vars, output_file, candidates, batch_size, file, cache, unverified_indices,
                 batch_start, total_processed, summary_shown, runs, write_fails>>

\* Line 443: _save_cache succeeds.
PeriodicSave ==
  /\ pc = "periodic_save"
  /\ file' = JsonFile(cache)
  /\ hist' = [hist EXCEPT !.persisted = cache]
  /\ i' = i + 1
  /\ pc' = "item"
  /\ UNCHANGED <<stage_vars, output_file, candidates, batch_size, cache, unverified_indices, batch_start,
                 total_processed, summary_shown, runs, write_fails>>

\* Line 443: _save_cache raises inside the try block; line 445 catches it,
\* logs the candidate and the loop goes on.
PeriodicSaveFails ==
  /\ pc = "periodic_save"
  /\ write_fails < MaxWriteFails
  /\ write_fails' = write_fails + 1
  /\ file' \in AfterFailedWrite(file)
  /\ hist' = [hist EXCEPT !.save_failed = TRUE,
                          !.errors = @ \cup {candidate_index}]
  /\ i' = i + 1
  /\ pc' = "item"
  /\ UNCHANGED <<stage_vars, output_file, candidates, batch_size, cache, unverified_indices, batch_start,
                 total_processed, summary_shown, runs>>

\* The inner loop is over: line 449.
BatchEnd ==
  /\ pc = "item"
  /\ i >= batch_len
  /\ pc' = "batch_save"
  /\ UNCHANGED <<stage_vars, output_file, candidates, batch_size, file, cache, unverified_indices,
                 batch_start, i, total_processed, summary_shown, runs,
                 write_fails, hist>>

\* Mutant: the save at the end of a batch dumps only the entries this run
\* has added.
BatchSaveOnlyNew ==
  /\ pc = "batch_save"
  /\ file' = JsonFile([k \in DOMAIN cache \ DOMAIN hist.start_cache |-> cache[k]])
  /\ hist' = [hist EXCEPT !.persisted = cache]
  /\ pc' = "batch_done"
  /\ UNCHANGED <<stage_vars, output_file, candidates, batch_size, cache, unverified_indices, batch_start,
                 i, total_processed, summary_shown, runs, write_fails>>

\* Line 449: _save_cache succeeds.
BatchSave ==
  /\ pc = "batch_save"
  /\ file' = JsonFile(cache)
  /\ hist' = [hist EXCEPT !.persisted = cache]
  /\ pc' = "batch_done"
  /\ UNCHANGED <<stage_vars, output_file, candidates, batch_size, cache, unverified_indices, batch_start,
                 i, total_processed, summary_shown, runs, write_fails>>

\* Lines 449 and 453: _save_cache raises outside every try block.
SaveFailsOutsideTry ==
  /\ pc \in {"batch_save", "final_save"}
  /\ write_fails < MaxWriteFails
  /\ write_fails' = write_fails + 1
  /\ file' \in AfterFailedWrite(file)
  /\ hist' = [hist EXCEPT !.save_failed = TRUE]
  /\ pc' = "failed"
  /\ UNCHANGED <<stage_vars, output_file, candidates, batch_size, cache, unverified_indices, batch_start,
                 i, total_processed, summary_shown, runs>>

\* Lines 450 and 408: the next batch, or the end of the outer loop.
NextBatch ==
  /\ pc = "batch_done"
  /\ batch_start' = batch_start + batch_size
  /\ i' = 0
  /\ pc' = IF batch_start' < Len(unverified_indices) THEN "item" ELSE "final_save"
  /\ UNCHANGED <<stage_vars, output_file, candidates, batch_size, file, cache, unverified_indices,
                 total_processed, summary_shown, runs, write_fails, hist>>

\* Line 453: _save_cache succeeds.
FinalSave ==
  /\ pc = "final_save"
  /\ file' = JsonFile(cache)
  /\ hist' = [hist EXCEPT !.persisted = cache]
  /\ pc' = "summary"
  /\ UNCHANGED <<stage_vars, output_file, candidates, batch_size, cache, unverified_indices, batch_start,
                 i, total_processed, summary_shown, runs, write_fails>>

\* Line 454: show_summary, then run_verification returns.
ShowSummary ==
  /\ pc = "summary"
  /\ summary_shown' = TRUE
  /\ pc' = "returned"
  /\ hist' = [hist EXCEPT !.prev_ok = hist.errors = {} /\ ~hist.save_failed]
  /\ UNCHANGED <<stage_vars, output_file, candidates, batch_size, file, cache, unverified_indices,
                 batch_start, i, total_processed, runs, write_fails>>

\* run_verification is called again on the same object.
RunAgain ==
  /\ pc = "returned"
  /\ runs < MaxRuns
  /\ pc' = "run"
  /\ UNCHANGED <<stage_vars, output_file, candidates, batch_size, file, cache, unverified_indices,
                 batch_start, i, total_processed, summary_shown, runs,
                 write_fails, hist>>

\* main returns after the export question, answered n (SpecExport has the
\* export).
Exit ==
  /\ pc = "returned"
  /\ pc' = "exited"
  /\ hist' = [hist EXCEPT !.resume = "other"]
  /\ UNCHANGED <<stage_vars, output_file, candidates, batch_size, file, cache, unverified_indices,
                 batch_start, i, total_processed, summary_shown, runs,
                 write_fails>>

\* KeyboardInterrupt inside run_verification: no except Exception clause
\* catches it, main's handler does (lines 557-560).  Inside _save_cache the
\* file is left truncated.
Interrupt ==
  /\ pc \in InRun
  /\ pc' = "handler"
  /\ file' = IF pc \in InSave THEN CorruptFile ELSE file
  /\ hist' = [hist EXCEPT
                !.intr = pc,
                !.loaded = FALSE,
                !.prev_ok = FALSE,
                !.intr_cache = cache,
                !.intr_index = IF pc = "item" /\ i < batch_len
                               THEN candidate_index ELSE -1]
  /\ UNCHANGED <<stage_vars, output_file, candidates, batch_size, cache, unverified_indices, batch_start,
                 i, total_processed, summary_shown, runs, write_fails>>

\* Mutant: the handler returns without _save_cache.
HandlerWithoutSave ==
  /\ pc = "handler"
  /\ pc' = "interrupt_exit"
  /\ hist' = [hist EXCEPT !.resume = "other"]
  /\ UNCHANGED <<stage_vars, output_file, candidates, batch_size, file, cache, unverified_indices,
                 batch_start, i, total_processed, summary_shown, runs,
                 write_fails>>

\* Line 559: the handler's _save_cache succeeds; main returns.
HandlerSave ==
  /\ pc = "handler"
  /\ file' = JsonFile(cache)
  /\ pc' = "interrupt_exit"
  /\ hist' = [hist EXCEPT !.persisted = cache, !.resume = "other"]
  /\ UNCHANGED <<stage_vars, output_file, candidates, batch_size, cache, unverified_indices, batch_start,
                 i, total_processed, summary_shown, runs, write_fails>>

\* Line 559: the handler's _save_cache raises; the exception leaves main.
HandlerSaveFails ==
  /\ pc = "handler"
  /\ write_fails < MaxWriteFails
  /\ write_fails' = write_fails + 1
  /\ file' \in AfterFailedWrite(file)
  /\ pc' = "failed"
  /\ hist' = [hist EXCEPT !.resume = "other"]
  /\ UNCHANGED <<stage_vars, output_file, candidates, batch_size, cache, unverified_indices, batch_start,
                 i, total_processed, summary_shown, runs>>

\* What a kill inside _save_cache leaves on disk: line 351 has truncated
\* the file, the dump is not complete.
save_cache_killed(f, c) == CorruptFile

\* The process is killed (no handler runs).
Crash ==
  /\ pc \in InRun
  /\ pc' = "crashed"
  /\ file' = IF pc \in InSave THEN save_cache_killed(file, cache) ELSE file
  /\ hist' = [hist EXCEPT
                !.resume = IF pc = "batch_done" /\ @ \in {"fresh", "resumed"}
                           THEN "stopped" ELSE "other",
                !.loaded = FALSE,
                !.prev_ok = FALSE]
  /\ UNCHANGED <<stage_vars, output_file, candidates, batch_size, cache, unverified_indices, batch_start,
                 i, total_processed, summary_shown, runs, write_fails>>

Next ==
  \/ Start
  \/ RunStart
  \/ Verify
  \/ Progress
  \/ PeriodicSave
  \/ PeriodicSaveFails
  \/ BatchEnd
  \/ BatchSave
  \/ SaveFailsOutsideTry
  \/ NextBatch
  \/ FinalSave
  \/ ShowSummary
  \/ RunAgain
  \/ Exit
  \/ Interrupt
  \/ HandlerSave
  \/ HandlerSaveFails
  \/ Crash

Spec == Init /\ [][Next]_vars


\* ------------------------------------------------------------------ claims
Indices == 0..(Len(candidates) - 1)
KeyOf(index) == get_cache_key(candidates, index)
\* The candidates whose key is absent from a cache.
Absent(c) == {index \in Indices : KeyOf(index) \notin DOMAIN c}
\* What the cache file gives a process that starts now.
Reloaded == load_cache(file).cache
\* Entries of the in-memory cache that the last successful save or load
\* does not hold.
Unsaved ==
  {k \in DOMAIN cache :
     k \notin DOMAIN hist.persisted \/ hist.persisted[k] # cache[k]}

\* The cache of one uninterrupted run over all the candidates that starts
\* from cache c0: c0, and the result of every candidate whose key c0 lacks
\* and whose classification returns.
FullRunCache(c0) ==
  LET new == {index \in Absent(c0) : ~verify_candidate(candidates, index).raised}
  IN [k \in DOMAIN c0 \cup {KeyOf(index) : index \in new} |->
        IF k \in DOMAIN c0 THEN c0[k]
        ELSE verify_candidate(candidates,
                              CHOOSE index \in new : KeyOf(index) = k).result]

\* C1: resume correctness.  A run that returns, either uninterrupted in the
\* first process or in a process resumed after the earlier ones were stopped
\* right after the flush that ends a batch, leaves a cache file whose entries
\* are those of one uninterrupted run from the cache the first process loaded.
C1_ResumeEqualsFullRun ==
  (pc = "returned" /\ hist.resume \in {"fresh", "resumed"})
    => Reloaded = FullRunCache(hist.first_cache)

\* A resumed run that found work left and did it.
C1_Witness ==
  /\ pc = "returned"
  /\ hist.resume = "resumed"
  /\ summary_shown
  /\ Len(candidates) >= 3
  /\ hist.start_cache # EmptyCache
  /\ hist.start_cache # cache

\* C2: re-entrancy.  A run gives verify_candidate only candidates whose key
\* the cache lacked when the run started, and by the time it returns all of
\* them; a run after a complete error-free run classifies nothing and leaves
\* the cache in memory and the cache file as they were.
C2_OnlyUnverified ==
  /\ pc \in (InRun \ {"run"}) \cup {"returned"}
       => hist.attempted \subseteq Absent(hist.start_cache)
  /\ pc = "returned" => hist.attempted = Absent(hist.start_cache)
  /\ (pc = "returned" /\ hist.after_ok)
       => /\ hist.attempted = {}
          /\ cache = hist.start_cache
          /\ file = hist.start_file

\* A second run over a non-empty list after a complete error-free run.
C2_Witness ==
  /\ pc = "returned"
  /\ hist.after_ok
  /\ runs = 2
  /\ Len(candidates) >= 2
  /\ DOMAIN cache = {KeyOf(index) : index \in Indices}

\* C3: no silent overwrite.  No step of a running process removes a key of
\* the cache or changes the value stored under it.
C3_NoOverwrite ==
  [][(pc \in InRun \cup {"returned", "handler"})
       => \A k \in DOMAIN cache : k \in DOMAIN cache' /\ cache'[k] = cache[k]]_vars

\* A run added entries to a cache that held an entry of an earlier analyzer.
C3_Witness ==
  /\ pc = "returned"
  /\ Len(candidates) >= 2
  /\ KeyOf(0) \in DOMAIN hist.start_cache
  /\ hist.start_cache[KeyOf(0)].verification_method = "manual"
  /\ cache[KeyOf(0)] = hist.start_cache[KeyOf(0)]
  /\ Cardinality(DOMAIN cache) > 1

\* C4: per-candidate fault isolation.  A candidate logged as an error of the
\* run has no cache entry (so the next run selects it again), and every other
\* candidate the run has tried has one.
C4_FaultIsolation ==
  pc \in (InRun \ {"run"}) \cup {"returned"}
    => /\ \A index \in hist.errors : KeyOf(index) \notin DOMAIN cache
       /\ \A index \in hist.attempted \ hist.errors : KeyOf(index) \in DOMAIN cache

\* C5: bounded loss.  Between candidates, the results in memory that the last
\* successful save does not hold are fewer than 10 and at most one batch.
C5_BoundedLoss ==
  pc \in {"item", "batch_save"}
    => /\ Cardinality(Unsaved) < SaveEvery
       /\ Cardinality(Unsaved) <= batch_size

\* C6: atomic flush.  After a kill at any point the cache file loads as the
\* mapping of the last successful save or as the mapping in memory.
C6_AtomicFlush ==
  pc = "crashed" => Reloaded \in {hist.persisted, cache}

\* C7: a failing write is never swallowed.  Once a _save_cache call of
\* run_verification has failed, the run has failed.
C7_WriteFailurePropagates ==
  hist.save_failed => pc = "failed"

\* C8: interrupt flush.  When main returns from its KeyboardInterrupt
\* handler, the cache file holds exactly the cache in memory, which is the
\* cache at the moment of the interrupt, and the candidate whose
\* classification the interrupt cut short has no entry.
C8_InterruptFlush ==
  pc = "interrupt_exit"
    => /\ file.kind = "json"
       /\ Reloaded = hist.intr_cache
       /\ cache = hist.intr_cache
       /\ hist.intr_index # -1 => KeyOf(hist.intr_index) \notin DOMAIN Reloaded

\* An interrupt inside a save, with unsaved results in memory, was handled.
C8_Witness ==
  /\ pc = "interrupt_exit"
  /\ hist.intr \in InSave
  /\ hist.intr_cache # hist.start_cache
  /\ Cardinality(DOMAIN Reloaded) >= 2

\* C9: load degradation.  A process that finds the cache file missing,
\* unreadable or not valid JSON starts with an empty cache, sees every
\* candidate as unverified and reaches run_verification; neither
\* _load_cache raises.
C9_LoadDegrades ==
  /\ (hist.loaded /\ hist.boot_file \in {"missing", "unreadable", "corrupt"})
       => /\ pc = "run"
          /\ cache = EmptyCache
          /\ Absent(cache) = Indices
  /\ ~load_cache(file).raised
  /\ ~web_load_cache(file).raised
  /\ file.kind # "json" => web_load_cache(file).cache = EmptyCache

\* A process started on a file that a kill inside a save had truncated.
C9_Witness ==
  /\ hist.loaded
  /\ hist.boot_file = "corrupt"
  /\ runs >= 1
  /\ pc = "run"
  /\ Len(candidates) >= 2

\* C10: termination with summary.  A run over a list main accepts (not
\* empty) that returns has shown the summary.
C10_SummaryShown ==
  (pc = "returned" /\ Len(candidates) > 0) => summary_shown


\* ------------------------------------------ AutoVerifier: lists and export
\* The candidates the upstream stage writes to the input file: two single
\* authors with different scores, a group and a record whose author is a
\* number.
UpstreamCandidates ==
  {OkCand,
   Cand(Str(<<"Old", "Talks">>), Str(<<"Doe", "Jane">>), Str(<<"interview">>)),
   CrewCand,
   NumAuthorCand}

\* export_single_authors: the list written to the output file.  keys is the
\* iteration order of self.cache (a dict keeps insertion order, and so do
\* json.dump and json.load).  Every single-author result whose index is
\* inside the list is paired with self.candidates[index]; list.sort is
\* stable and puts the highest confidence first.
export_single_authors(cands, c, keys) ==
  LET record(result) ==
        [verification_result |-> result,
         candidate_data |-> cands[result.index + 1]]
      exported(result) ==
        IF result.is_single_author /\ result.index < Len(cands)
        THEN <<record(result)>> ELSE <<>>
      RECURSIVE single_authors(_)
      single_authors(n) ==
        IF n = 0 THEN <<>>
        ELSE single_authors(n - 1) \o exported(c[keys[n]])
      confidence(item) == item.verification_result.confidence
      ahead(sorted, item) ==
        Cardinality({k \in DOMAIN sorted : confidence(sorted[k]) >= confidence(item)})
      placed(sorted, item, n) ==
        SubSeq(sorted, 1, n) \o <<item>> \o SubSeq(sorted, n + 1, Len(sorted))
      insert(sorted, item) == placed(sorted, item, ahead(sorted, item))
      RECURSIVE sort(_)
      sort(s) ==
        IF s = <<>> THEN <<>>
        ELSE insert(sort(SubSeq(s, 1, Len(s) - 1)), s[Len(s)])
  IN sort(single_authors(Len(keys)))

\* Before the first process: the input file holds one or two candidates,
\* there is neither a cache file nor an exported file.  hist keeps the key
\* order of the cache, the list and the outcome of the last run, the edits
\* of the input file since then, whether every edit so far was an append
\* (grown), and what the run that just ended found (was) and did
\* (start_cache, attempted).
InitExport ==
  /\ \E first \in UpstreamCandidates :
       \/ candidates = <<first>>
       \/ \E second \in UpstreamCandidates : candidates = <<first, second>>
  /\ batch_size = 50
  /\ file = NoFile
  /\ cache = EmptyCache
  /\ output_file = NoFile
  /\ pc = "off"
  /\ unverified_indices = <<>>
  /\ batch_start = 0
  /\ i = 0
  /\ total_processed = 0
  /\ summary_shown = FALSE
  /\ runs = 0
  /\ write_fails = 0
  /\ hist = [order |-> <<>>,
             previous |-> <<>>,
             complete |-> FALSE,
             edits |-> "none",
             count |-> 0,
             grown |-> TRUE,
             was |-> [previous |-> <<>>, complete |-> FALSE, edits |-> "none"],
             start_cache |-> EmptyCache,
             attempted |-> {}]
  /\ StagesIdle

\* Between two processes the upstream stage rewrites the input file: a
\* candidate is appended, inserted at the front or removed, or two
\* neighbours change places.
EditCandidates ==
  /\ pc = "exited"
  /\ runs < MaxRuns
  /\ hist.count < MaxEdits
  /\ \/ /\ Len(candidates) < MaxList
        /\ \E candidate \in UpstreamCandidates :
             candidates' = Append(candidates, candidate)
        /\ hist' = [hist EXCEPT !.count = @ + 1,
                                !.edits = IF @ = "other" THEN "other" ELSE "append"]
     \/ /\ \/ /\ Len(candidates) < MaxList
              /\ \E candidate \in UpstreamCandidates :
                   candidates' = <<candidate>> \o candidates
           \/ \E k \in DOMAIN candidates :
                candidates' = SubSeq(candidates, 1, k - 1)
                                \o SubSeq(candidates, k + 1, Len(candidates))
           \/ \E k \in 1..(Len(candidates) - 1) :
                /\ candidates[k] # candidates[k + 1]
                /\ candidates' = [candidates EXCEPT ![k] = candidates[k + 1],
                                                    ![k + 1] = candidates[k]]
        /\ hist' = [hist EXCEPT !.count = @ + 1, !.edits = "other", !.grown = FALSE]
  /\ UNCHANGED <<stage_vars, output_file, batch_size, file, cache, pc,
                 unverified_indices, batch_start, i, total_processed,
                 summary_shown, runs, write_fails>>

\* One process from its start to its end, with no failed write and no
\* interrupt: AutoVerifier() loads the list and the cache, main returns at
\* once for an empty list, run_verification classifies every candidate
\* whose key the cache lacks (an exception of verify_candidate is logged and
\* leaves no entry) and saves the cache unless there was nothing to verify,
\* and the export question is answered y or n.
Main ==
  /\ pc \in {"off", "exited"}
  /\ runs < MaxRuns
  /\ LET loaded == load_cache(file).cache
         todo == get_unverified_candidates(candidates, loaded)
         put(c, index, v) ==
           IF v.raised THEN c ELSE Put(c, get_cache_key(candidates, index), v.result)
         RECURSIVE verified(_)
         verified(n) ==
           IF n = 0 THEN loaded
           ELSE put(verified(n - 1), todo[n], verify_candidate(candidates, todo[n]))
         entered(index) ==
           IF verify_candidate(candidates, index).raised THEN <<>>
           ELSE <<get_cache_key(candidates, index)>>
         RECURSIVE keys(_)
         keys(n) == IF n = 0 THEN hist.order ELSE keys(n - 1) \o entered(todo[n])
     IN /\ cache' = IF candidates = <<>> THEN cache ELSE verified(Len(todo))
        /\ file' = IF candidates = <<>> \/ todo = <<>> THEN file ELSE JsonFile(cache')
        /\ unverified_indices' = IF candidates = <<>> THEN unverified_indices ELSE todo
        /\ total_processed' = IF candidates = <<>> THEN total_processed
                              ELSE Cardinality(DOMAIN cache' \ DOMAIN loaded)
        /\ summary_shown' = (candidates # <<>> /\ todo # <<>>)
        /\ hist' = [order |-> IF candidates = <<>> THEN hist.order ELSE keys(Len(todo)),
                    previous |-> candidates,
                    complete |-> \A index \in 0..(Len(candidates) - 1) :
                                   get_cache_key(candidates, index) \in DOMAIN cache',
                    edits |-> "none",
                    count |-> 0,
                    grown |-> hist.grown,
                    was |-> [previous |-> hist.previous,
                             complete |-> hist.complete,
                             edits |-> hist.edits],
                    start_cache |-> loaded,
                    attempted |-> IF candidates = <<>> THEN {} ELSE Range(todo)]
        /\ \E export_choice \in {"y", "n"} :
             output_file' = IF candidates # <<>> /\ export_choice = "y"
                            THEN JsonFile(export_single_authors(candidates, cache',
                                                                hist'.order))
                            ELSE output_file
  /\ runs' = runs + 1
  /\ pc' = "exited"
  /\ UNCHANGED <<stage_vars, candidates, batch_size, batch_start, i, write_fails>>

NextExport ==
  \/ EditCandidates
  \/ Main

SpecExport == InitExport /\ [][NextExport]_vars

\* --------------------------------------------- claims on lists and export
\* C26: key stability under append.  Let the input file have changed by
\* appends only since the first process, which found no cache file.  When a
\* process has ended (and the input file has not been rewritten since)
\* after a process that left every candidate of its list in the cache, the
\* key of every position of the old list is the one it had, the process has
\* classified exactly the appended positions, and every entry it loaded,
\* among them the one of every old position, is in the cache as it was.
C26_AppendKeepsKeys ==
  (/\ pc = "exited"
   /\ hist.count = 0
   /\ hist.was.complete
   /\ hist.grown)
    => LET old == hist.was.previous
           kept == 0..(Len(old) - 1)
       IN /\ \A index \in kept :
               /\ get_cache_key(candidates, index) = get_cache_key(old, index)
               /\ get_cache_key(candidates, index) \in DOMAIN hist.start_cache
          /\ hist.attempted = (0..(Len(candidates) - 1)) \ kept
          /\ \A k \in DOMAIN hist.start_cache :
               k \in DOMAIN cache /\ cache[k] = hist.start_cache[k]
C26_Witness ==
  /\ pc = "exited"
  /\ hist.count = 0
  /\ hist.was.complete
  /\ hist.grown
  /\ hist.was.edits = "append"
  /\ Len(candidates) > Len(hist.was.previous)
  /\ hist.attempted = Len(hist.was.previous)..(Len(candidates) - 1)
  /\ \E k \in DOMAIN hist.start_cache : cache[k] = hist.start_cache[k]

\* C27: export attribution.  Every record of the exported file pairs a
\* verification result with the candidate it was computed from: the title
\* and the author of candidate_data are those recorded in the result.
C27_ExportAttribution ==
  \A n \in DOMAIN output_file.data :
    /\ output_file.data[n].candidate_data.title
         = output_file.data[n].verification_result.title
    /\ output_file.data[n].candidate_data.author
         = output_file.data[n].verification_result.author

\* ------------------------------------------------------------- str methods
\* Python strings of the classifiers are TLA+ strings, read character by
\* character.
\* the lower-case letter of every upper-case ASCII letter
lower_of ==
  [A |-> "a", B |-> "b", C |-> "c", D |-> "d", E |-> "e", F |-> "f",
   G |-> "g", H |-> "h", I |-> "i", J |-> "j", K |-> "k", L |-> "l",
   M |-> "m", N |-> "n", O |-> "o", P |-> "p", Q |-> "q", R |-> "r",
   S |-> "s", T |-> "t", U |-> "u", V |-> "v", W |-> "w", X |-> "x",
   Y |-> "y", Z |-> "z"]
\* the characters str.split() and str.strip() treat as white space
whitespace == {" ", "\t", "\n"}

CharAt(s, k) == SubSeq(s, k, k)

\* s.lower(), one half of the string after the other
RECURSIVE lower(_)
lower(s) ==
  IF Len(s) <= 1 THEN (IF s \in DOMAIN lower_of THEN lower_of[s] ELSE s)
  ELSE lower(SubSeq(s, 1, Len(s) \div 2))
         \o lower(SubSeq(s, Len(s) \div 2 + 1, Len(s)))

\* p in s
Contains(s, p) ==
  \E k \in 1..(Len(s) - Len(p) + 1) : SubSeq(s, k, k + Len(p) - 1) = p

\* c.isupper() and c.islower() for one character
isupper(c) == c \in DOMAIN lower_of
islower(c) == \E u \in DOMAIN lower_of : lower_of[u] = c

\* s.isalpha(): not empty and letters only
isalpha(s) ==
  /\ s # ""
  /\ \A k \in 1..Len(s) : isupper(CharAt(s, k)) \/ islower(CharAt(s, k))

\* s.rstrip(c)
RECURSIVE rstrip(_, _)
rstrip(s, c) ==
  IF s # "" /\ CharAt(s, Len(s)) = c
  THEN rstrip(SubSeq(s, 1, Len(s) - 1), c) ELSE s

\* s.split(): the maximal runs of characters that are not white space, from
\* left to right
split(s) ==
  LET in_word(k) == CharAt(s, k) \notin whitespace
      starts == {k \in 1..Len(s) : in_word(k) /\ (k = 1 \/ ~in_word(k - 1))}
      word_from(k) ==
        SubSeq(s, k, CHOOSE end \in k..Len(s) :
                       /\ \A j \in k..end : in_word(j)
                       /\ (end = Len(s) \/ ~in_word(end + 1)))
      start_of(n) ==
        CHOOSE k \in starts : Cardinality({j \in starts : j < k}) = n - 1
  IN [n \in 1..Cardinality(starts) |-> word_from(start_of(n))]

\* len(s.strip()) == 0
strip_is_empty(s) == \A k \in 1..Len(s) : CharAt(s, k) \in whitespace

\* "for indicator in indicators: if indicator in text": the indicators that
\* match, in list order, one for every occurrence in the list.
RECURSIVE matched(_, _)
matched(indicators, text) ==
  IF indicators = <<>> THEN <<>>
  ELSE (IF Contains(text, Head(indicators)) THEN <<Head(indicators)>> ELSE <<>>)
         \o matched(Tail(indicators), text)

\* f"{prefix}{item}{suffix}" for every item of a list
formatted(prefix, items, suffix) ==
  [k \in 1..Len(items) |-> prefix \o items[k] \o suffix]

\* ------------------------------------------------------------------ floats
\* The author scores are IEEE-754 doubles.  [q, e] is the real number
\* q/20 + e/(5 * 2^60): q counts twentieths (every decimal of the two
\* classifiers is a multiple of 0.05) and e is what rounding has added.
\* fl rounds a real number of this form to the nearest double, ties to the
\* even mantissa: in the binade of the number the doubles are G apart, and
\* 2^58 * q + e modulo 2G tells the neighbours and the parity of the lower.
fl(x) ==
  LET pow2mod5(k) == <<1, 2, 4, 3>>[(k % 4) + 1]
      Neg(y) == [q |-> -y.q, e |-> -y.e]
      \* y > 0 rounded, given the gap G and r2, the remainder modulo 2G
      rounded(y, G, r2) ==
        [q |-> y.q,
         e |-> IF 2 * (r2 % G) > G \/ (2 * (r2 % G) = G /\ r2 # r2 % G)
               THEN y.e - (r2 % G) + G ELSE y.e - (r2 % G)]
      \* y > 0 rounded in the binade where the doubles are 5 * 2^n apart
      in_binade(y, n) ==
        rounded(y, 5 * 2^n,
                ((y.q % 5) * pow2mod5(57 - n) * 2^(n + 1) + y.e) % (2 * 5 * 2^n))
      \* a number just below a power of two lies in the binade below
      binade(y, n0) ==
        in_binade(y, IF 5 * 2^n0 = 64 * y.q /\ y.e < 0 THEN n0 - 1 ELSE n0)
      fl_pos(y) ==
        binade(y, CHOOSE n \in 0..20 : 5 * 2^n <= 64 * y.q /\ 64 * y.q < 5 * 2^(n + 1))
  IN IF x.q = 0 THEN x
     ELSE IF x.q < 0 THEN Neg(fl_pos(Neg(x)))
     ELSE fl_pos(x)

\* the double a decimal literal denotes: Lit(4) is 0.2
Lit(q) == fl([q |-> q, e |-> 0])
fl_add(x, y) == fl([q |-> x.q + y.q, e |-> x.e + y.e])
fl_sub(x, y) == fl([q |-> x.q - y.q, e |-> x.e - y.e])
\* x > y
fl_gt(x, y) == x.q > y.q \/ (x.q = y.q /\ x.e > y.e)
\* max(x, y) and min(x, y) of Python: the first argument unless the second
\* is greater (smaller)
fl_max(x, y) == IF fl_gt(y, x) THEN y ELSE x
fl_min(x, y) == IF fl_gt(x, y) THEN y ELSE x

\* Mutant: the score is returned as it is.
clamp_missing(score) == score

\* max(0.0, min(1.0, score))
clamp(score) == fl_max(Lit(0), fl_min(Lit(20), score))

\* "score -= penalty" ("+=" when sign is positive), once for every match
RECURSIVE fl_repeat(_, _, _, _)
fl_repeat(x, sign, y, n) ==
  IF n = 0 THEN x
  ELSE fl_repeat(IF sign > 0 THEN fl_add(x, y) ELSE fl_sub(x, y), sign, y, n - 1)

\* A score that is a quotient of small integers, as the fraction num/den.
Ratio(num, den) == [num |-> num, den |-> den]
\* a > b for fractions
ratio_gt(a, b) == a.num * b.den > b.num * a.den

\* ----------------------------------------------------------------- doubles
\* The composed scores are products and sums of doubles, which the
\* twentieths above cannot hold.  A natural number of any size is the
\* sequence of its digits in base 2^14, lowest first; a double is [m, x],
\* the number m * 2^x with m of exactly 53 bits (four digits), or of four
\* zeros for 0.0.

\* digits * 2^k in normal form: every digit in 0..2^14-1, no leading zero.
\* The digits given may be of any size and sign, their sum not negative.
big_shl(digits, k) ==
  LET RECURSIVE carry(_, _)
      carry(s, c) ==
        IF s = <<>> THEN (IF c = 0 THEN <<>> ELSE <<c % 2^14>> \o carry(s, c \div 2^14))
        ELSE <<(Head(s) + c) % 2^14>> \o carry(Tail(s), (Head(s) + c) \div 2^14)
      RECURSIVE strip(_)
      strip(s) ==
        IF s # <<>> /\ s[Len(s)] = 0 THEN strip(SubSeq(s, 1, Len(s) - 1)) ELSE s
      shifted(s) == IF s = <<>> THEN s ELSE [j \in 1..(k \div 14) |-> 0] \o s
  IN shifted(strip(carry([j \in 1..Len(digits) |-> digits[j] * 2^(k % 14)], 0)))

\* The double nearest to n * 2^x, ties to the even mantissa; n in normal form.
fl_round(n, x) ==
  LET bits(t) == CHOOSE b \in 1..14 : 2^(b - 1) <= t /\ t < 2^b
      \* n without its s lowest bits, s = 14 * w + r
      high(w, r) ==
        [j \in 1..(Len(n) - w) |->
           (n[w + j] \div 2^r)
             + (IF w + j < Len(n) THEN (n[w + j + 1] % 2^r) * 2^(14 - r) ELSE 0)]
      \* the bits dropped are more than half a unit, or half a unit (tie)
      half(w, r) ==
        IF r > 0 THEN (n[w + 1] % 2^r) \div 2^(r - 1) = 1 ELSE n[w] \div 2^13 = 1
      sticky(w, r) ==
        \/ IF r > 0 THEN n[w + 1] % 2^(r - 1) # 0 ELSE n[w] % 2^13 # 0
        \/ \E j \in 1..(IF r > 0 THEN w ELSE w - 1) : n[j] # 0
      up(q, w, r) == half(w, r) /\ (sticky(w, r) \/ q[1] % 2 = 1)
      \* a mantissa rounded up to 2^53 is 2^52 with the next exponent
      carried(m, y) ==
        IF m[4] = 2^11 THEN [m |-> <<0, 0, 0, 2^10>>, x |-> y + 1]
        ELSE [m |-> m, x |-> y]
      cut(q, w, r) ==
        carried(IF up(q, w, r) THEN big_shl([q EXCEPT ![1] = @ + 1], 0)
                ELSE big_shl(q, 0),
                x + 14 * w + r)
      sized(len) ==
        IF len <= 53 THEN [m |-> big_shl(n, 53 - len), x |-> x - (53 - len)]
        ELSE cut(high((len - 53) \div 14, (len - 53) % 14),
                 (len - 53) \div 14, (len - 53) % 14)
  IN IF n = <<>> THEN [m |-> <<0, 0, 0, 0>>, x |-> 0]
     ELSE sized(14 * (Len(n) - 1) + bits(n[Len(n)]))

\* a * b of two doubles
fl_mul(a, b) ==
  fl_round(big_shl([k \in 1..7 |->
                      LET RECURSIVE column(_)
                          column(j) ==
                            IF j > 4 THEN 0
                            ELSE (IF k + 1 - j \in 1..4 THEN a.m[j] * b.m[k + 1 - j] ELSE 0)
                                   + column(j + 1)
                      IN column(1)], 0),
           a.x + b.x)

\* a + b of two doubles that are not negative
fl_plus(a, b) ==
  LET digit(s, j) == IF j <= Len(s) THEN s[j] ELSE 0
      sum(s, t) == [j \in 1..(IF Len(s) > Len(t) THEN Len(s) ELSE Len(t)) |->
                      digit(s, j) + digit(t, j)]
      aligned(y) ==
        fl_round(big_shl(sum(big_shl(a.m, a.x - y), big_shl(b.m, b.x - y)), 0), y)
  IN IF a.m[4] = 0 THEN b
     ELSE IF b.m[4] = 0 THEN a
     ELSE aligned(IF a.x < b.x THEN a.x ELSE b.x)

\* The double nearest to (n / d) * 2^x: n a natural number in normal form,
\* d a positive integer below 2^16.  The quotient n * 2^70 \div d has more
\* than 53 bits, and a last bit tells whether the division left a remainder.
fl_quot(n, d, x) ==
  LET RECURSIVE quotient(_, _)
      \* the digits of s \div d, lowest first, then the remainder
      quotient(s, rem) ==
        IF s = <<>> THEN <<rem>>
        ELSE quotient(SubSeq(s, 1, Len(s) - 1), (rem * 2^14 + s[Len(s)]) % d)
               \o <<(rem * 2^14 + s[Len(s)]) \div d>>
      rounded(qr) ==
        fl_round(big_shl([j \in 1..(Len(qr) - 1) |->
                            2 * qr[j + 1] + (IF j = 1 /\ qr[1] # 0 THEN 1 ELSE 0)], 0),
                 x - 71)
  IN rounded(quotient(big_shl(n, 70), 0))

\* candidate.get(key, default): the default for a key that is absent
Missing == [type |-> "missing", val |-> <<>>]
Get(v, default) == IF v.type = "missing" THEN default ELSE v

\* ---------------------------------------------------------------- RSSAnalyzer
\* Part 2: stage2_rss_analyzer.py.  A feed is what feedparser.parse returns:
\* [raises, message, status, entries]; an entry is [title, published,
\* published_parsed, links, summary] with published_parsed the first six
\* fields of the time tuple (<<>> when feedparser resolved no date) and a
\* link is [type, href, rel] of JSON values.  The character U+2265 of the
\* issue strings is spelt ">=".

\* self.target_years, and the order in which "for year in self.target_years"
\* visits this set of small integers.
\* Mutant: the years next to the target years are taken as well.
target_years_wide == 2019..2025

target_years == {2020, 2021, 2022, 2023, 2024}
target_years_order == <<2020, 2021, 2022, 2023, 2024>>

\* str(n) of an integer n >= 0, as an f-string formats it
RECURSIVE str_of(_)
str_of(n) ==
  IF n < 10 THEN CharAt("0123456789", n + 1)
  ELSE str_of(n \div 10) \o CharAt("0123456789", (n % 10) + 1)

\* sep.join(items)
RECURSIVE join(_, _)
join(sep, items) ==
  IF items = <<>> THEN ""
  ELSE IF Len(items) = 1 THEN items[1]
  ELSE items[1] \o sep \o join(sep, Tail(items))

\* datetime(*published_parsed[:6]).year: the constructor raises ValueError
\* for a tuple that is no date, and the year stays None
datetime_year(t) ==
  LET leap == t[1] % 4 = 0 /\ (t[1] % 100 # 0 \/ t[1] % 400 = 0)
      days == IF t[2] = 2 THEN (IF leap THEN 29 ELSE 28)
              ELSE IF t[2] \in {4, 6, 9, 11} THEN 30 ELSE 31
  IN IF /\ t[1] \in 1..9999
        /\ t[2] \in 1..12
        /\ t[3] \in 1..days
        /\ t[4] \in 0..23
        /\ t[5] \in 0..59
        /\ t[6] \in 0..59
     THEN Num(t[1]) ELSE Null

\* the two "any(indicator in ...)" tests of one link
link_is_transcript(link) ==
  LET link_type == lower(Get(link.type, Str("")).val)
      href == lower(Get(link.href, Str("")).val)
  IN \/ matched(<<"text/", "html", "transcript">>, link_type) # <<>>
     \/ matched(<<"transcript", "text">>, href) # <<>>

\* _parse_episode: [raised, message, info].  link.get(key, "").lower() raises
\* AttributeError for a key whose value is null.
parse_episode(entry) ==
  IF \E k \in DOMAIN entry.links : \E key \in {"type", "href", "rel"} :
       Get(entry.links[k][key], Str("")).type # "str"
  THEN [raised |-> TRUE, message |-> "'NoneType' object has no attribute 'lower'"]
  ELSE LET transcript == SelectSeq(entry.links, link_is_transcript)
       IN [raised |-> FALSE,
           info |->
             [title |-> entry.title,
              published |-> entry.published,
              year |-> IF entry.published_parsed # <<>>
                       THEN datetime_year(entry.published_parsed) ELSE Null,
              has_transcript |-> transcript # <<>>,
              transcript_links |->
                [k \in DOMAIN transcript |-> Get(transcript[k].href, Str("")).val],
              summary |-> entry.summary,
              links |-> entry.links]]

\* Mutant: giving up on a feed is not reported as an issue.
unavailable_silent(candidate, issue) ==
  [candidate |-> candidate,
   rss_available |-> FALSE,
   episodes_by_year |-> <<>>,
   episodes_2024_count |-> 0,
   total_target_episodes |-> 0,
   has_sufficient_2024 |-> FALSE,
   transcript_episodes |-> <<>>,
   validation_passed |-> FALSE,
   issues |-> <<>>]

\* The dictionary the three places that give up on a feed return: no URL,
\* a status other than 200, an exception.
unavailable(candidate, issue) ==
  [candidate |-> candidate,
   rss_available |-> FALSE,
   episodes_by_year |-> <<>>,
   episodes_2024_count |-> 0,
   total_target_episodes |-> 0,
   has_sufficient_2024 |-> FALSE,
   transcript_episodes |-> <<>>,
   validation_passed |-> FALSE,
   issues |-> <<issue>>]

\* sum(1 for ep in year_episodes if ep.get("has_transcript", False))
episodes_with_transcripts(year_episodes) ==
  Len(SelectSeq(year_episodes, LAMBDA ep : ep.has_transcript))

\* Mutant: only the first year with too few episodes is listed.
years_insufficient_first(episodes_by_year) ==
  LET years == SelectSeq(target_years_order,
                         LAMBDA year : Len(episodes_by_year[year]) < 2)
  IN [k \in DOMAIN SubSeq(years, 1, 1) |->
        str_of(years[k]) \o "(" \o str_of(Len(episodes_by_year[years[k]])) \o "ep)"]

\* The validation loop's two lists.
years_insufficient(episodes_by_year) ==
  LET years == SelectSeq(target_years_order,
                         LAMBDA year : Len(episodes_by_year[year]) < 2)
  IN [k \in DOMAIN years |->
        str_of(years[k]) \o "(" \o str_of(Len(episodes_by_year[years[k]])) \o "ep)"]

\* Mutant: the validation loop does not count transcripts.
years_insufficient_transcripts_unchecked(episodes_by_year) == <<>>

years_insufficient_transcripts(episodes_by_year) ==
  LET years == SelectSeq(target_years_order,
                         LAMBDA year :
                           /\ ~(Len(episodes_by_year[year]) < 2)
                           /\ episodes_with_transcripts(episodes_by_year[year]) < 2)
  IN [k \in DOMAIN years |->
        str_of(years[k]) \o "("
          \o str_of(episodes_with_transcripts(episodes_by_year[years[k]])) \o "tx/"
          \o str_of(Len(episodes_by_year[years[k]])) \o "ep)"]

\* sum(len(episodes) for episodes in episodes_by_year.values())
RECURSIVE total_episodes(_, _)
total_episodes(episodes_by_year, years) ==
  IF years = <<>> THEN 0
  ELSE Len(episodes_by_year[Head(years)])
         + total_episodes(episodes_by_year, Tail(years))

\* The metrics, the validation and the dictionary of a feed that was read.
feed_result(candidate, episodes_by_year, transcript_episodes) ==
  LET episodes_2024_count == Len(episodes_by_year[2024])
      has_sufficient_2024 == episodes_2024_count >= 2
      insufficient == years_insufficient(episodes_by_year)
      insufficient_transcripts == years_insufficient_transcripts(episodes_by_year)
      has_sufficient_all_years ==
        Len(insufficient) = 0 /\ Len(insufficient_transcripts) = 0
  IN [candidate |-> candidate,
      rss_available |-> TRUE,
      episodes_by_year |-> episodes_by_year,
      episodes_2024_count |-> episodes_2024_count,
      total_target_episodes |-> total_episodes(episodes_by_year, target_years_order),
      has_sufficient_2024 |-> has_sufficient_2024,
      has_sufficient_all_years |-> has_sufficient_all_years,
      transcript_episodes |-> transcript_episodes,
      validation_passed |-> has_sufficient_all_years,
      issues |->
        (IF Len(insufficient) > 0
         THEN <<"Insufficient episodes in years: " \o join(", ", insufficient)
                  \o " (need >=2 each year)">>
         ELSE <<>>)
        \o (IF Len(insufficient_transcripts) > 0
            THEN <<"Insufficient transcripts in years: "
                     \o join(", ", insufficient_transcripts)
                     \o " (need >=2 with transcripts each year)">>
            ELSE IF ~has_sufficient_2024
            THEN <<"Only " \o str_of(episodes_2024_count)
                     \o " episodes in 2024, need >=2">>
            ELSE <<>>)]

\* The body of analyze_podcast_rss's try block: [raised, message, result].
parse_feed(candidate, feed) ==
  IF feed.raises THEN [raised |-> TRUE, message |-> feed.message]
  ELSE IF ~(feed.status.type = "num" /\ feed.status.val = 200)
  THEN [raised |-> FALSE,
        result |-> unavailable(candidate,
                     "RSS feed returned status "
                       \o (IF feed.status.type = "num"
                           THEN str_of(feed.status.val) ELSE "unknown"))]
  ELSE LET parsed == [k \in DOMAIN feed.entries |-> parse_episode(feed.entries[k])]
       IN IF \E k \in DOMAIN parsed : parsed[k].raised
          THEN [raised |-> TRUE,
                message |-> parsed[CHOOSE k \in DOMAIN parsed :
                                     /\ parsed[k].raised
                                     /\ \A j \in 1..(k - 1) : ~parsed[j].raised].message]
          ELSE LET infos == [k \in DOMAIN parsed |-> parsed[k].info]
                   kept == SelectSeq(infos,
                             LAMBDA e : e.year.type = "num" /\ e.year.val \in target_years)
               IN [raised |-> FALSE,
                   result |->
                     feed_result(candidate,
                       [year \in target_years |->
                          SelectSeq(kept, LAMBDA e : e.year.val = year)],
                       SelectSeq(kept, LAMBDA e : e.has_transcript))]

\* Mutant: no "except Exception" around the try block.
analyze_podcast_rss_uncaught(candidate, feeds) ==
  LET rss_url == Get(candidate.url, Null)
  IN IF ~(rss_url.type = "str" /\ rss_url.val # "")
     THEN [raised |-> FALSE, result |-> unavailable(candidate, "No RSS URL provided")]
     ELSE parse_feed(candidate, feeds[rss_url.val])

\* analyze_podcast_rss: [raised, result]; "except Exception" turns whatever
\* the try block raised into a result.
analyze_podcast_rss(candidate, feeds) ==
  LET rss_url == Get(candidate.url, Null)
  IN IF ~(rss_url.type = "str" /\ rss_url.val # "")
     THEN [raised |-> FALSE, result |-> unavailable(candidate, "No RSS URL provided")]
     ELSE LET attempt == parse_feed(candidate, feeds[rss_url.val])
          IN IF attempt.raised
             THEN [raised |-> FALSE,
                   result |-> unavailable(candidate,
                                "RSS parsing error: " \o attempt.message)]
             ELSE attempt

\* -------------------------------------------------------- stage 2: the feeds
\* The links of an entry: an audio enclosure, and for an entry with a
\* transcript a link that says so by its type or by its href.
Link(type, href) == [type |-> type, href |-> href, rel |-> Missing]

\* The n-th entry a feed published in a year.
Entry(published_parsed, n, flagged) ==
  LET audio_link == Link(Str("audio/mpeg"), Str("e.mp3"))
      transcript_link == IF n % 2 = 0 THEN Link(Str("text/html"), Str("n"))
                         ELSE Link(Missing, Str("Transcript.PDF"))
  IN
  [title |-> "Episode " \o str_of(n),
   published |-> "",
   published_parsed |-> published_parsed,
   links |-> <<audio_link>>
               \o (IF flagged THEN <<transcript_link>> ELSE <<>>),
   summary |-> ""]

\* The entries of the years of a list, newest first: counts[year] is
\* <<entries, entries with a transcript>>.
RECURSIVE YearEntries(_, _)
YearEntries(counts, years) ==
  IF years = <<>> THEN <<>>
  ELSE YearEntries(counts, Tail(years))
         \o [n \in 1..counts[Head(years)][1] |->
               Entry(<<Head(years), 6, 15, 12, 0, 0>>, n, n <= counts[Head(years)][2])]

\* Entries no target year takes: no date, a date that is none, and years
\* outside 2020-2024.  All of them link a transcript.
StrayEntries ==
  <<Entry(<<>>, 1, TRUE), Entry(<<2021, 2, 30, 0, 0, 0>>, 2, TRUE),
    Entry(<<2019, 12, 31, 23, 59, 59>>, 3, TRUE), Entry(<<2025, 1, 1, 0, 0, 0>>, 4, TRUE)>>

Feed(status, entries) ==
  [raises |-> FALSE, message |-> "", status |-> status, entries |-> entries]

\* What a year can hold, and the feeds read: every year holds the same
\* except two, with or without the stray entries.
GoodFeeds ==
  LET PerYear == {g \in (0..MaxPerYear) \X (0..MaxPerYear) : g[2] <= g[1]}
  IN
  {Feed(Num(200),
        YearEntries([year \in target_years |->
                       IF year = y1 THEN g1 ELSE IF year = y2 THEN g2 ELSE base],
                    target_years_order) \o stray) :
     y1 \in target_years, y2 \in target_years, g1 \in PerYear, g2 \in PerYear,
     base \in {<<2, 2>>, <<0, 0>>}, stray \in {<<>>, StrayEntries}}

\* The feeds that cannot be read: feedparser raises, the server answers 404,
\* no status at all, a redirect status with entries, a link whose type is null.
BadFeeds ==
  {[raises |-> TRUE, message |-> "timed out", status |-> Missing, entries |-> <<>>],
   Feed(Num(404), <<>>),
   Feed(Missing, <<>>),
   Feed(Num(301), YearEntries([year \in target_years |-> <<2, 2>>], target_years_order)),
   Feed(Num(200), <<Entry(<<2024, 6, 15, 12, 0, 0>>, 1, TRUE),
                    [Entry(<<2024, 6, 16, 12, 0, 0>>, 2, FALSE) EXCEPT
                       !.links = <<Link(Null, Str("e.mp3"))>>]>>)}

\* Candidates of stage 1 and the feeds behind their URLs.
FeedCandidate(url) == [url |-> url, title |-> Str("Morning Notes")]
TheWeb ==
  [url \in {"a", "b", "c", "d", "e"} |->
     CASE url = "a" -> Feed(Num(200), YearEntries([year \in target_years |-> <<2, 2>>],
                                                  target_years_order))
       [] url = "b" -> Feed(Num(200), YearEntries([year \in target_years |-> <<2, 1>>],
                                                  target_years_order))
       [] url = "c" -> Feed(Num(404), <<>>)
       [] url = "d" -> [raises |-> TRUE, message |-> "timed out", status |-> Missing,
                        entries |-> <<>>]
       [] OTHER -> Feed(Num(200), <<[Entry(<<2024, 6, 16, 12, 0, 0>>, 1, FALSE) EXCEPT
                                        !.links = <<Link(Null, Str("e.mp3"))>>]>>)]

RECURSIVE ListsOver(_, _)
ListsOver(S, n) ==
  IF n = 0 THEN {<<>>}
  ELSE ListsOver(S, n - 1)
         \cup {Append(l, x) : l \in {m \in ListsOver(S, n - 1) : Len(m) = n - 1}, x \in S}

\* ------------------------------------------------- stage 2: the state machine
\* The Part 1 variables the other stages leave alone.
verifier_vars == <<batch_size, file, cache, unverified_indices, batch_start,
                   total_processed, summary_shown, write_fails, hist,
                   output_file>>
VerifierIdle ==
  /\ batch_size = 0
  /\ file = NoFile
  /\ cache = EmptyCache
  /\ unverified_indices = <<>>
  /\ batch_start = 0
  /\ total_processed = 0
  /\ summary_shown = FALSE
  /\ write_fails = 0
  /\ hist = NoHist
  /\ output_file = NoFile

\* analyze_candidates has been called with candidates.
InitRss ==
  /\ \/ /\ candidates = <<FeedCandidate(Str("a"))>>
        /\ \E feed \in GoodFeeds \cup BadFeeds : web = [url \in {"a"} |-> feed]
     \/ /\ candidates \in
             {<<FeedCandidate(url)>> : url \in {Null, Str(""), Missing}}
               \cup ListsOver({FeedCandidate(Str(url)) : url \in DOMAIN TheWeb}
                               \cup {FeedCandidate(Null)}, MaxFeeds)
        /\ web = TheWeb
  /\ pc = "analyze"
  /\ i = 0
  /\ analyzed_results = <<>>
  /\ passed_candidates = <<>>
  /\ author_text = ""
  /\ filter_tool = <<>>
  /\ analyzer = <<>>
  /\ calls = <<>>
  /\ filtered_results = <<>>
  /\ runs = 0
  /\ VerifierIdle

\* One iteration of analyze_candidates' loop.
AnalyzeCandidate ==
  /\ pc = "analyze"
  /\ i < Len(candidates)
  /\ LET r == analyze_podcast_rss(candidates[i + 1], web)
     IN IF r.raised
        THEN /\ pc' = "raised"
             /\ UNCHANGED <<analyzed_results, passed_candidates, i>>
        ELSE /\ analyzed_results' = Append(analyzed_results, r.result)
             /\ passed_candidates' = IF r.result.validation_passed
                                     THEN Append(passed_candidates, r.result)
                                     ELSE passed_candidates
             /\ i' = i + 1
             /\ pc' = pc
  /\ UNCHANGED <<candidates, web, author_text, filter_tool, analyzer, calls,
                 filtered_results, runs, verifier_vars>>

\* "return analyzed_results, passed_candidates"
AnalyzeReturn ==
  /\ pc = "analyze"
  /\ i = Len(candidates)
  /\ pc' = "analyzed"
  /\ UNCHANGED <<candidates, web, analyzed_results, passed_candidates, i, author_text,
                 filter_tool, analyzer, calls, filtered_results, runs, verifier_vars>>

NextRss ==
  \/ AnalyzeCandidate
  \/ AnalyzeReturn

SpecRss == InitRss /\ [][NextRss]_vars

\* ------------------------------------------------------- claims on stage 2
\* C11 (coverage completeness): whatever analyze_podcast_rss returns maps
\* exactly the target years, each to a list of entries, also when there was
\* no URL, the status was not 200 or an exception was caught.
C11_CoverageComplete ==
  \A k \in DOMAIN analyzed_results :
    DOMAIN analyzed_results[k].episodes_by_year = target_years

\* The entries of a feed dated in a year, and those of them that link a
\* transcript.
DatedIn(feed, year) ==
  {k \in DOMAIN feed.entries :
     /\ feed.entries[k].published_parsed # <<>>
     /\ datetime_year(feed.entries[k].published_parsed) = Num(year)}
FlaggedIn(feed, year) ==
  {k \in DatedIn(feed, year) :
     \E n \in DOMAIN feed.entries[k].links :
       link_is_transcript(feed.entries[k].links[n])}

\* C12 (validation policy): a feed that was read passes exactly when every
\* target year has at least two entries and at least two entries with a
\* transcript; a year with only one such entry fails the feed, with an issue
\* that names the year.
C12_ValidationPolicy ==
  \A k \in DOMAIN analyzed_results :
    LET r == analyzed_results[k]
        feed == web[r.candidate.url.val]
    IN r.rss_available =>
         /\ r.validation_passed <=>
              \A year \in target_years :
                /\ Cardinality(DatedIn(feed, year)) >= 2
                /\ Cardinality(FlaggedIn(feed, year)) >= 2
         /\ \A year \in target_years :
              Cardinality(FlaggedIn(feed, year)) = 1 =>
                /\ ~r.validation_passed
                /\ \E n \in DOMAIN r.issues : Contains(r.issues[n], str_of(year))

\* A feed with two entries in every year, all with a transcript except one
\* entry of one year, was analysed and failed.
C12_Witness ==
  \E k \in DOMAIN analyzed_results :
    LET r == analyzed_results[k]
        feed == web[r.candidate.url.val]
    IN /\ r.rss_available
       /\ ~r.validation_passed
       /\ \A year \in target_years : Cardinality(DatedIn(feed, year)) = 2
       /\ \E year \in target_years :
            /\ Cardinality(FlaggedIn(feed, year)) = 1
            /\ \A other \in target_years \ {year} :
                 Cardinality(FlaggedIn(feed, other)) = 2

\* The candidates analyze_podcast_rss gives up on: no URL, feedparser raises,
\* a status other than 200, an entry whose parsing raises.
GivesUp(candidate) ==
  LET rss_url == Get(candidate.url, Null)
  IN \/ ~(rss_url.type = "str" /\ rss_url.val # "")
     \/ web[rss_url.val].raises
     \/ ~(web[rss_url.val].status.type = "num" /\ web[rss_url.val].status.val = 200)
     \/ \E k \in DOMAIN web[rss_url.val].entries :
          parse_episode(web[rss_url.val].entries[k]).raised

\* C13 (soft feed failure): no exception leaves analyze_podcast_rss; a
\* candidate it gives up on gets a result with rss_available and
\* validation_passed false, zero counts and an issue that says why; and
\* analyze_candidates returns one result for every candidate, in input order.
C13_SoftFailure ==
  /\ pc # "raised"
  /\ pc = "analyzed" => Len(analyzed_results) = Len(candidates)
  /\ \A k \in DOMAIN analyzed_results :
       LET r == analyzed_results[k]
       IN /\ r.candidate = candidates[k]
          /\ GivesUp(candidates[k]) =>
               /\ ~r.rss_available
               /\ ~r.validation_passed
               /\ r.episodes_2024_count = 0
               /\ r.total_target_episodes = 0
               /\ r.transcript_episodes = <<>>
               /\ Len(r.issues) = 1
               /\ Len(r.issues[1]) > 0

\* analyze_candidates returned after a feed that raised and a feed that
\* passed.
C13_Witness ==
  /\ pc = "analyzed"
  /\ Len(candidates) = 2
  /\ GivesUp(candidates[1])
  /\ web[candidates[1].url.val].raises
  /\ analyzed_results[2].validation_passed

\* An entry no bucket takes: feedparser resolved no date, the date is none,
\* or its year is not one of 2020 to 2024.
Stray(entry) ==
  \/ entry.published_parsed = <<>>
  \/ datetime_year(entry.published_parsed).type # "num"
  \/ datetime_year(entry.published_parsed).val \notin 2020..2024
\* The feed without such entries.
WithoutStrays(feed) ==
  [feed EXCEPT !.entries = SelectSeq(@, LAMBDA entry : ~Stray(entry))]
\* The elements of a list.
Elements(list) == {list[n] : n \in DOMAIN list}

\* C24 (dropped entries leave no trace): an entry whose year is not
\* resolved or is no target year is in no bucket and not in
\* transcript_episodes, is not counted and adds no issue: the result is the
\* result for the feed without it.  total_target_episodes is the sum of the
\* bucket sizes and transcript_episodes is the bucketed entries with
\* has_transcript.
C24_DroppedLeaveNoTrace ==
  \A k \in DOMAIN analyzed_results :
    LET r == analyzed_results[k]
        feed == web[r.candidate.url.val]
        bucketed == UNION {Elements(r.episodes_by_year[year]) :
                             year \in DOMAIN r.episodes_by_year}
    IN r.rss_available =>
         /\ r = analyze_podcast_rss(
                  r.candidate,
                  [web EXCEPT ![r.candidate.url.val] = WithoutStrays(feed)]).result
         /\ \A year \in DOMAIN r.episodes_by_year :
              /\ year \in 2020..2024
              /\ \A e \in Elements(r.episodes_by_year[year]) : e.year = Num(year)
              /\ Len(r.episodes_by_year[year]) = Cardinality(DatedIn(feed, year))
         /\ r.total_target_episodes
              = Cardinality({n \in DOMAIN feed.entries : ~Stray(feed.entries[n])})
         /\ r.total_target_episodes = Cardinality(bucketed)
         /\ r.episodes_2024_count = Cardinality(DatedIn(feed, 2024))
         /\ Elements(r.transcript_episodes) = {e \in bucketed : e.has_transcript}
         /\ Len(r.transcript_episodes) = Cardinality(Elements(r.transcript_episodes))

\* A feed with entries in target years and with an entry without a date,
\* one with a date that is none, one of 2019 and one of 2025, each linking
\* a transcript, was analysed.
C24_Witness ==
  \E k \in DOMAIN analyzed_results :
    LET r == analyzed_results[k]
        feed == web[r.candidate.url.val]
    IN /\ r.rss_available
       /\ r.total_target_episodes > 0
       /\ r.total_target_episodes + 4 = Len(feed.entries)
       /\ \E n \in DOMAIN feed.entries : feed.entries[n].published_parsed = <<>>
       /\ \E n \in DOMAIN feed.entries :
            /\ feed.entries[n].published_parsed # <<>>
            /\ datetime_year(feed.entries[n].published_parsed) = Null
       /\ \E n \in DOMAIN feed.entries :
            /\ feed.entries[n].published_parsed # <<>>
            /\ datetime_year(feed.entries[n].published_parsed) = Num(2019)
       /\ \E n \in DOMAIN feed.entries :
            /\ feed.entries[n].published_parsed # <<>>
            /\ datetime_year(feed.entries[n].published_parsed) = Num(2025)

\* The issues of a result that begin with a text and the years they name:
\* a year is named by its number and the bracket that opens its counts.
IssuesWith(r, text) ==
  {n \in DOMAIN r.issues :
     Len(r.issues[n]) >= Len(text) /\ SubSeq(r.issues[n], 1, Len(text)) = text}
Names(issue, year) == Contains(issue, str_of(year) \o "(")
\* The target years with fewer than two entries in a feed, and those with
\* two entries or more and fewer than two with a transcript.
FewEpisodes(feed) == {year \in target_years : Cardinality(DatedIn(feed, year)) < 2}
FewTranscripts(feed) ==
  {year \in target_years \ FewEpisodes(feed) : Cardinality(FlaggedIn(feed, year)) < 2}

\* C25 (complete issue reporting): for a feed that was read, every target
\* year with fewer than two entries is named in the "Insufficient episodes"
\* issue and every target year with two entries or more and fewer than two
\* with a transcript in the "Insufficient transcripts" issue; with years of
\* both kinds both issues are there, and every failing year is named in
\* exactly one of them.
C25_IssuesComplete ==
  \A k \in DOMAIN analyzed_results :
    LET r == analyzed_results[k]
        feed == web[r.candidate.url.val]
        episodes == IssuesWith(r, "Insufficient episodes in years: ")
        transcripts == IssuesWith(r, "Insufficient transcripts in years: ")
    IN r.rss_available =>
         /\ Cardinality(episodes) = IF FewEpisodes(feed) = {} THEN 0 ELSE 1
         /\ Cardinality(transcripts) = IF FewTranscripts(feed) = {} THEN 0 ELSE 1
         /\ episodes \cap transcripts = {}
         /\ \A year \in target_years :
              /\ year \in FewEpisodes(feed) <=> \E n \in episodes : Names(r.issues[n], year)
              /\ year \in FewTranscripts(feed)
                   <=> \E n \in transcripts : Names(r.issues[n], year)
              /\ year \in FewEpisodes(feed) \cup FewTranscripts(feed) =>
                   Cardinality({n \in DOMAIN r.issues : Names(r.issues[n], year)}) = 1

\* A feed with several years that have too few entries and a year that has
\* two entries and one transcript was analysed: two issues.
C25_Witness ==
  \E k \in DOMAIN analyzed_results :
    LET r == analyzed_results[k]
        feed == web[r.candidate.url.val]
    IN /\ r.rss_available
       /\ Cardinality(FewEpisodes(feed)) > 1
       /\ FewTranscripts(feed) # {}
       /\ Len(r.issues) = 2

\* C30 (verdict and issues agree): in every result of analyze_podcast_rss
\* validation_passed is true only if rss_available is true, the issues list
\* is empty and has_sufficient_2024 is true, and when validation_passed is
\* false the issues list is not empty.
C30_VerdictMatchesIssues ==
  \A k \in DOMAIN analyzed_results :
    LET r == analyzed_results[k]
    IN /\ r.validation_passed =>
            r.rss_available /\ r.issues = <<>> /\ r.has_sufficient_2024
       /\ ~r.validation_passed => r.issues # <<>>

\* analyze_candidates has returned a result that passed, and a result for
\* a feed that was read and failed or a result for a feed it gave up on.
C30_Witness ==
  /\ \E k \in DOMAIN analyzed_results :
       analyzed_results[k].validation_passed /\ analyzed_results[k].issues = <<>>
  /\ \E k \in DOMAIN analyzed_results :
       ~analyzed_results[k].validation_passed /\ Len(analyzed_results[k].issues) = 1
  /\ pc = "analyzed"

\* ------------------------------------------------------ SingleAuthorFilter
\* The object SingleAuthorFilter() constructs.
SingleAuthorFilter ==
  [org_indicators |->
     <<".com", ".fm", ".org", ".net", "llc", "inc", "corp", "company",
       "university", "college", "media company", "network", "studio",
       "radio station", "center", "centre", "institute", "foundation",
       "research center", "salem podcast", "whisper.fm", "solgoodmedia.com",
       "buzzsprout.com", "transistor.fm", "trade canyon", "s&p global",
       "virginia museum", "u.s. army", "christian research", "centre for",
       "wolfram research", "podcast network", "academic network",
       "media group", "broadcasting", "association", "society",
       "university of", "college of", "school of", "capital research center",
       "church of", "free church", "communications",
       "reformed theological seminary", "methodist communications",
       "baptist college">>,
   multi_person_indicators |->
     <<"&", " and ", ",", "co-", "hosts", "team", "partners", "with",
       "featuring", "/", "&", "mark & adam", "john and jane", "alice & bob",
       "j.c stewart, kenyatta hoskins & mark liddell", "heritage and",
       "research and", "foundation and", "crew", "team", "staff", "students",
       "faculty", "collective", "group", "band", "ensemble">>,
   single_host_positive |->
     <<"solo", "personal", "individual", "my thoughts", "my podcast",
       "monologue", "lecture", "story", "philosophy", "reflection">>,
   scripted_indicators |->
     <<"written", "script", "prepared", "composed", "authored", "structured",
       "organized", "planned", "narrative", "story", "lecture", "episode",
       "series", "chronicles", "explores", "recounts", "presents", "delves",
       "investigates", "examines", "analysis", "reflection", "perspective",
       "journey", "history">>]

\* Mutant: no title is recognised.
no_title_words == {}

\* _looks_like_personal_name: its title_words
filter_title_words == {"dr.", "prof.", "professor", "pastor", "rev.", "reverend"}

filter_looks_like_personal_name(name) ==
  IF name = "" \/ strip_is_empty(name) THEN FALSE
  ELSE LET non_personal ==
             <<"podcast", "show", "radio", "broadcast", "media", "network", "crew",
               "team", "staff", "students", "collective", "group", "university",
               "college", "center", "institute", "foundation">>
           all_words == split(name)
           remaining_words == Tail(all_words)
           words == IF lower(all_words[1]) \in filter_title_words
                       /\ Len(remaining_words) >= 2
                    THEN remaining_words ELSE all_words
       IN IF ~(2 <= Len(words) /\ Len(words) <= 4) THEN FALSE
          ELSE IF \E k \in 1..Len(words) :
                    LET clean_word == rstrip(words[k], ".")
                    IN ~isalpha(clean_word) \/ ~isupper(CharAt(clean_word, 1))
          THEN FALSE
          ELSE IF matched(non_personal, lower(name)) # <<>> THEN FALSE
          ELSE \A k \in 1..Len(words) : isupper(CharAt(words[k], 1))

\* _analyze_author_field: the score, the strings it appends to evidence and
\* to issues, and for an author that is not empty the score after the
\* organization penalties and after the multi-person penalties.
filter_analyze_author_field(self, author) ==
  IF author = ""
  THEN [score |-> Lit(0), evidence |-> <<>>, issues |-> <<"No author field">>]
  ELSE LET \* the return value, from the matches and the scores on the way
           returned(org, multi, personal, after_org, after_multi) ==
             [score |-> clamp(IF personal THEN fl_add(after_multi, Lit(4))
                              ELSE after_multi),
              evidence |->
                IF personal
                THEN <<"Author appears to be personal name: '" \o author \o "'">>
                ELSE <<>>,
              issues |->
                formatted("Organization indicator in author: '", org, "'")
                  \o formatted("Multi-person indicator in author: '", multi, "'"),
              after_org |-> after_org,
              after_multi |-> after_multi]
           \* the second loop: score -= 0.25 for every match
           after_org_loop(org, multi, after_org) ==
             returned(org, multi, filter_looks_like_personal_name(author), after_org,
                      fl_repeat(after_org, -1, Lit(5), Len(multi)))
           \* the first loop: score = 1.0, score -= 0.2 for every match
           loops(org, multi) ==
             after_org_loop(org, multi, fl_repeat(Lit(20), -1, Lit(4), Len(org)))
           with_lower(author_lower) ==
             loops(matched(self.org_indicators, author_lower),
                   matched(self.multi_person_indicators, author_lower))
       IN with_lower(lower(author))

\* Mutant: positive / total without the floor of 0.1.
single_host_content_unfloored(self, title, description) ==
  LET loops(positive, negative, ambiguous_count) ==
        [score |-> IF Len(positive) + Len(negative) + ambiguous_count = 0
                   THEN Ratio(1, 2)
                   ELSE Ratio(2 * Len(positive),
                              2 * Len(positive) + 2 * Len(negative) + ambiguous_count),
         evidence |-> formatted("Single host indicator: '", positive, "'"),
         issues |-> formatted("Multi-host indicator: '", negative, "'")]
      combined(combined_text) ==
        loops(matched(self.single_host_positive, combined_text),
              matched(<<"co-host", "hosts", "team", "together", "panel",
                        "multiple hosts", "host and", "hosting with", "co-hosting",
                        "joint hosting">>, combined_text),
              Len(matched(<<"discussion", "interview", "conversation">>, combined_text)))
  IN combined(lower(title \o " " \o description))

\* _analyze_single_host_content
analyze_single_host_content(self, title, description) ==
  LET multi_host ==
        <<"co-host", "hosts", "team", "together", "panel", "multiple hosts",
          "host and", "hosting with", "co-hosting", "joint hosting">>
      ambiguous == <<"discussion", "interview", "conversation">>
      \* the return value; total2 is twice total_indicators
      returned(positive, negative, total2) ==
        [score |-> IF total2 = 0 THEN Ratio(1, 2)
                   ELSE IF ratio_gt(Ratio(2 * Len(positive), total2), Ratio(1, 10))
                   THEN Ratio(2 * Len(positive), total2)
                   ELSE Ratio(1, 10),
         evidence |-> formatted("Single host indicator: '", positive, "'"),
         issues |-> formatted("Multi-host indicator: '", negative, "'")]
      counted(positive, negative, ambiguous_count) ==
        returned(positive, negative,
                 2 * Len(positive) + 2 * Len(negative) + ambiguous_count)
      loops(combined_text) ==
        counted(matched(self.single_host_positive, combined_text),
                matched(multi_host, combined_text),
                Len(matched(ambiguous, combined_text)))
  IN loops(lower(title \o " " \o description))

\* Mutant: two indicators score as three do.
scripted_content_two_steps(self, title, description) ==
  LET returned(scripted) ==
        [score |-> IF Len(scripted) >= 2 THEN Lit(18)
                   ELSE IF Len(scripted) = 1 THEN Lit(12)
                   ELSE Lit(10),
         evidence |-> formatted("Scripted indicator: '", scripted, "'")]
  IN returned(matched(self.scripted_indicators, lower(title \o " " \o description)))

\* Mutant: a text without scripted indicators scores 0.4.
scripted_content_low_default(self, title, description) ==
  LET returned(scripted) ==
        [score |-> IF Len(scripted) >= 3 THEN Lit(18)
                   ELSE IF Len(scripted) >= 2 THEN Lit(15)
                   ELSE IF Len(scripted) = 1 THEN Lit(12)
                   ELSE Lit(8),
         evidence |-> formatted("Scripted indicator: '", scripted, "'")]
  IN returned(matched(self.scripted_indicators, lower(title \o " " \o description)))

\* _analyze_scripted_content
analyze_scripted_content(self, title, description) ==
  LET returned(scripted) ==
        [score |-> IF Len(scripted) >= 3 THEN Lit(18)
                   ELSE IF Len(scripted) >= 2 THEN Lit(15)
                   ELSE IF Len(scripted) = 1 THEN Lit(12)
                   ELSE Lit(10),
         evidence |-> formatted("Scripted indicator: '", scripted, "'")]
  IN returned(matched(self.scripted_indicators, lower(title \o " " \o description)))

\* Mutant: is_self_written asks for an author score above 0.5.
filter_single_author_strict(self, candidate) ==
  IF \E v \in {Get(candidate.title, Str("")), Get(candidate.description, Str("")),
                Get(candidate.author, Str(""))} : v.type # "str"
  THEN [raised |-> TRUE]
  ELSE
    LET returned(a, h, s, is_single_host) ==
          [raised |-> FALSE,
           candidate |-> candidate,
           is_single_host |-> is_single_host,
           is_scripted |-> fl_gt(s.score, Lit(8)),
           is_self_written |-> fl_gt(a.score, Lit(10)) /\ is_single_host,
           confidence_score |-> Lit(0),
           evidence |-> a.evidence \o h.evidence \o s.evidence,
           issues |-> a.issues \o h.issues,
           author_score |-> a.score,
           single_host_score |-> h.score,
           scripted_score |-> s.score]
        scored(a, h, s) ==
          returned(a, h, s, fl_gt(a.score, Lit(8)) /\ ratio_gt(h.score, Ratio(3, 10)))
        lowered(title, description, author) ==
          scored(filter_analyze_author_field(self, author),
                 analyze_single_host_content(self, title, description),
                 analyze_scripted_content(self, title, description))
    IN lowered(lower(Get(candidate.title, Str("")).val),
               lower(Get(candidate.description, Str("")).val),
               lower(Get(candidate.author, Str("")).val))

\* filter_single_author: [raised, result].  str.lower() raises
\* AttributeError for a field that is not a string.  confidence_score is the
\* double author_score * 0.5 + single_host_score * 0.3 + scripted_score * 0.2,
\* added from left to right.
filter_single_author(self, candidate) ==
  LET title_value == Get(candidate.title, Str(""))
      description_value == Get(candidate.description, Str(""))
      author_value == Get(candidate.author, Str(""))
  IN IF title_value.type # "str" \/ description_value.type # "str"
          \/ author_value.type # "str"
     THEN [raised |-> TRUE]
     ELSE
       LET \* a score in twentieths, a fraction and a literal 0.n as doubles
           double(score) == fl_quot(big_shl(<<score.e, 0, 0, 0, 4 * score.q>>, 0), 5, -60)
           quotient(score) == fl_quot(big_shl(<<score.num>>, 0), score.den, 0)
           literal(tenths) == fl_quot(<<tenths>>, 10, 0)
           \* the dictionary returned, from what the three analyses returned
           returned(a, h, s, is_single_host) ==
             [raised |-> FALSE,
              candidate |-> candidate,
              is_single_host |-> is_single_host,
              is_scripted |-> fl_gt(s.score, Lit(8)),
              is_self_written |-> fl_gt(a.score, Lit(6)) /\ is_single_host,
              confidence_score |->
                fl_plus(fl_plus(fl_mul(double(a.score), literal(5)),
                                fl_mul(quotient(h.score), literal(3))),
                        fl_mul(double(s.score), literal(2))),
              evidence |-> a.evidence \o h.evidence \o s.evidence,
              issues |-> a.issues \o h.issues,
              author_score |-> a.score,
              single_host_score |-> h.score,
              scripted_score |-> s.score]
           scored(a, h, s) ==
             returned(a, h, s,
                      fl_gt(a.score, Lit(8)) /\ ratio_gt(h.score, Ratio(3, 10)))
           lowered(title, description, author) ==
             scored(filter_analyze_author_field(self, author),
                    analyze_single_host_content(self, title, description),
                    analyze_scripted_content(self, title, description))
       IN lowered(lower(title_value.val), lower(description_value.val),
                  lower(author_value.val))

\* --------------------------------------------------- SingleAuthorAnalyzer
\* The object SingleAuthorAnalyzer() constructs.  The lists keep their
\* repetitions: an indicator listed twice is counted twice.
SingleAuthorAnalyzer ==
  [org_indicators |-> <<".com", ".fm", ".org", ".net", "llc", "inc", "corp",
       "company", "university", "college", "center", "centre", "institute",
       "foundation", "research center", "salem podcast", "whisper.fm",
       "solgoodmedia.com", "buzzsprout.com", "transistor.fm", "trade canyon",
       "s&p global", "virginia museum", "u.s. army", "christian research",
       "centre for", "wolfram research", "podcast network",
       "academic network", "media group", "broadcasting", "association",
       "society", "university of", "college of", "school of",
       "capital research center", "church of", "free church",
       "communications", "reformed theological seminary",
       "methodist communications", "baptist college", "royal veterinary",
       "london school", "research center", "faculty", "staff", "team",
       "crew", "collective", "group">>,
   multi_person_indicators |-> <<"&", " and ", ",", "co-", "hosts", "team",
       "partners", "with", "featuring", "/", "mark & adam", "john and jane",
       "alice & bob", "j.c stewart, kenyatta hoskins & mark liddell",
       "heritage and", "research and", "foundation and", "crew", "team",
       "staff", "students", "collective", "group", "band", "ensemble",
       "friends", "host and", "hosting with", "co-hosting", "joint hosting">>,
   single_host_positive |-> <<"solo", "personal", "individual",
       "my thoughts", "my podcast", "monologue", "lecture", "story",
       "philosophy", "reflection">>]

\* The ceilings of the two penalties: min(org_penalty, 0.8) and
\* min(multi_penalty, 0.9).
org_penalty_cap == Lit(16)
multi_penalty_cap == Lit(18)

\* SingleAuthorAnalyzer._looks_like_personal_name
analyzer_looks_like_personal_name(name) ==
  IF name = "" \/ strip_is_empty(name) THEN FALSE
  ELSE LET all_words == split(name)
           titles == {"dr.", "prof.", "professor", "pastor", "rev.", "reverend"}
           non_personal ==
             <<"podcast", "show", "radio", "broadcast", "media", "network", "crew",
               "team", "staff", "students", "collective", "group", "university",
               "college", "center", "institute", "foundation">>
           words == IF lower(all_words[1]) \in titles /\ Len(Tail(all_words)) >= 2
                    THEN Tail(all_words) ELSE all_words
       IN IF ~(2 <= Len(words) /\ Len(words) <= 4) THEN FALSE
          ELSE IF \E k \in 1..Len(words) :
                    LET clean_word == rstrip(words[k], ".")
                    IN ~isalpha(clean_word) \/ ~isupper(CharAt(clean_word, 1))
          THEN FALSE
          ELSE matched(non_personal, lower(name)) = <<>>

\* analyze_author_field: [score, evidence, issues], and for an author that
\* is not empty the score after the organization penalty and after the
\* multi-person penalty.
analyzer_analyze_author_field(self, author) ==
  IF author = ""
  THEN [score |-> Lit(0), evidence |-> <<>>, issues |-> <<"No author field provided">>]
  ELSE LET \* the return value, from the matches and the scores on the way
           returned(org, multi, personal, after_org, after_multi) ==
             [score |-> clamp(IF personal THEN fl_add(after_multi, Lit(6))
                              ELSE after_multi),
              evidence |-> IF personal
                           THEN <<"Personal name pattern: '" \o author \o "'">>
                           ELSE <<>>,
              issues |-> formatted("Organization indicator: '", org, "'")
                           \o formatted("Multi-person indicator: '", multi, "'"),
              after_org |-> after_org,
              after_multi |-> after_multi]
           \* "if multi_penalty > 0: score -= min(multi_penalty, 0.9)"
           after_org_penalty(org, multi, multi_penalty, after_org) ==
             returned(org, multi, analyzer_looks_like_personal_name(author), after_org,
                      IF fl_gt(multi_penalty, Lit(0))
                      THEN fl_sub(after_org, fl_min(multi_penalty, multi_penalty_cap))
                      ELSE after_org)
           \* "if org_penalty > 0: score -= min(org_penalty, 0.8)"
           penalties(org, multi, org_penalty, multi_penalty) ==
             after_org_penalty(org, multi, multi_penalty,
                               IF fl_gt(org_penalty, Lit(0))
                               THEN fl_sub(Lit(20), fl_min(org_penalty, org_penalty_cap))
                               ELSE Lit(20))
           \* the two loops: penalty += 0.3 and penalty += 0.4 for every match
           loops(org, multi) ==
             penalties(org, multi, fl_repeat(Lit(0), 1, Lit(6), Len(org)),
                       fl_repeat(Lit(0), 1, Lit(8), Len(multi)))
           with_lower(author_lower) ==
             loops(matched(self.org_indicators, author_lower),
                   matched(self.multi_person_indicators, author_lower))
       IN with_lower(lower(author))

\* analyze_content: [score, evidence, issues]; the score is the fraction
\* positive / (positive + negative + 0.5 * ambiguous), at least 0.1.
analyzer_analyze_content(self, title, description) ==
  LET multi_host ==
        <<"co-host", "hosts", "team", "together", "panel", "multiple hosts",
          "host and", "hosting with", "co-hosting", "joint hosting">>
      \* the return value; total2 is twice total_indicators
      returned(positive, negative, total2) ==
        [score |-> IF total2 = 0 THEN Ratio(1, 2)
                   ELSE IF ratio_gt(Ratio(2 * Len(positive), total2), Ratio(1, 10))
                   THEN Ratio(2 * Len(positive), total2)
                   ELSE Ratio(1, 10),
         evidence |-> formatted("Single host indicator: '", positive, "'"),
         issues |-> formatted("Multi-host indicator: '", negative, "'")]
      counted(positive, negative, ambiguous_count) ==
        returned(positive, negative,
                 2 * Len(positive) + 2 * Len(negative) + ambiguous_count)
      loops(combined_text) ==
        counted(matched(self.single_host_positive, combined_text),
                matched(multi_host, combined_text),
                Len(matched(<<"discussion", "interview", "conversation">>,
                            combined_text)))
  IN loops(lower(title \o " " \o description))

\* str(v) as an f-string formats a field: None prints as "None"
format_field(v) == IF v.type = "null" THEN "None" ELSE v.val

\* is_single_author: [raised, is_single, overall_score, ...reasoning].
\* author.lower() raises AttributeError for an author that is neither a
\* string nor falsy.  overall_score is the double (author_score * 0.7) +
\* (content_score * 0.3), and is_single compares it with the double 0.6.
analyzer_is_single_author(self, candidate) ==
  LET title == Get(candidate.title, Str(""))
      author == Get(candidate.author, Str(""))
      description == Get(candidate.description, Str(""))
  IN IF author.type \notin {"str", "null"}
     THEN [raised |-> TRUE]
     ELSE
       LET \* a score in twentieths, a fraction and a literal 0.n as doubles
           double(score) == fl_quot(big_shl(<<score.e, 0, 0, 0, 4 * score.q>>, 0), 5, -60)
           quotient(score) == fl_quot(big_shl(<<score.num>>, 0), score.den, 0)
           literal(tenths) == fl_quot(<<tenths>>, 10, 0)
           \* u > v for doubles that are not negative
           greater(u, v) ==
             /\ u.m[4] # 0
             /\ \/ v.m[4] = 0
                \/ u.x > v.x
                \/ /\ u.x = v.x
                   /\ \E k \in 1..4 : /\ u.m[k] > v.m[k]
                                      /\ \A j \in (k + 1)..4 : u.m[j] = v.m[j]
           \* what is returned, from what the two analyses returned
           returned(a, c, overall_score) ==
             [raised |-> FALSE,
              author_score |-> a.score,
              content_score |-> c.score,
              overall_score |-> overall_score,
              is_single |-> greater(overall_score, literal(6)),
              author_evidence |-> a.evidence,
              author_issues |-> a.issues,
              content_evidence |-> c.evidence,
              content_issues |-> c.issues]
           scored(a, c) ==
             returned(a, c, fl_plus(fl_mul(double(a.score), literal(7)),
                                    fl_mul(quotient(c.score), literal(3))))
       IN scored(analyzer_analyze_author_field(
                   self, IF author.type = "null" THEN "" ELSE author.val),
                 analyzer_analyze_content(self, format_field(title),
                                          format_field(description)))

\* ------------------------------------------------- classifiers: the inputs
\* The author strings the author-field functions and the name heuristics
\* are given.
Authors ==
  {"", "  ", "Dr. John Smith", "The Smith Family Podcast Crew", "John Smith",
   "john smith", "Dr. Smith", "J. R. R. Tolkien", "Antonio Banderas",
   "Acme Media Group Inc", "Foo Institute of University College", "Mark & Adam",
   "Jane Doe, PhD",
   "University of Oxford College of Law Center for Media Company Network Studio Foundation.org",
   "Institute of University College Center Foundation Company Corp Inc LLC Society.org",
   "Rev. Al Green Jr.", "Prof. A B C D E", "Prof. A B C D", "Sam Showalter", "NPR",
   "NPR.org", "Alice and Bob / Team", "Mary-Jane Watson", "Pastor Bob",
   "Foo Studio Network Inc", "Capital Research Center",
   "A & B, C / D with E and F featuring G",
   "Band of Friends, Partners & Co-Hosts / Team", "Jane  Doe", "Jane Doe ",
   "jane Doe", "Jane D0e", "Jane . Doe", "Jane Doe Jr Sr III", "X Y", "Professor Plum"}

\* Candidates of a stage-2 output file.
Candidate(title, author, description) ==
  [title |-> Str(title), author |-> Str(author), description |-> Str(description)]
Corpus ==
  <<Candidate("Solo Voice", "Antonio Banderas", "a personal monologue"),
    Candidate("Morning Notes", "NPR.org", ""),
    Candidate("Morning Notes", "Jane Doe, PhD", ""),
    Candidate("Panel Hour", "NPR.org", ""),
    Candidate("Panel Hour", "Jane Doe", ""),
    Candidate("Morning Notes", "Foo Studio Network Inc", ""),
    Candidate("Morning Notes", "Mark & Adam", ""),
    Candidate("Written Essays", "Jane Doe", "a narrated story"),
    Candidate("Morning Notes", "Acme llc Inc", "a solo discussion, recorded together"),
    Candidate("History Hour", "Jane Doe", "a written series that explores history"),
    Candidate("Evening Interview", "Jane Doe", "one episode")>>
\* The candidates of the short lists; the last has "author": null.
ShortPool ==
  {Corpus[1], Corpus[2], Corpus[5],
   [title |-> Str("Night Talk"), author |-> Null, description |-> Missing]}

\* ------------------------------------------ classifiers: the state machines
\* A call of a function of a classifier object, as the log keeps it.
Call(function, argument, result) ==
  [function |-> function, argument |-> argument, result |-> result]

\* The classifier objects after a call: neither filter_single_author nor
\* is_single_author, nor a function they call, assigns an attribute of self.
\* Mutant: the call empties a list of the object.
filter_after_call_clearing(self) == [self EXCEPT !.single_host_positive = <<>>]

filter_after_call(self) == self
analyzer_after_call(self) == self

\* Stage 2 and the verification runner stay as they are.
others_idle ==
  /\ web = <<>>
  /\ analyzed_results = <<>>
  /\ passed_candidates = <<>>
  /\ VerifierIdle
others == <<web, analyzed_results, passed_candidates, verifier_vars>>

\* The two objects have been constructed and an author string is at hand.
InitAuthor ==
  /\ author_text \in Authors
  /\ filter_tool = SingleAuthorFilter
  /\ analyzer = SingleAuthorAnalyzer
  /\ calls = <<>>
  /\ candidates = <<>>
  /\ filtered_results = <<>>
  /\ pc = "author"
  /\ i = 0
  /\ runs = 0
  /\ others_idle

\* One more call of a function on the author string.
Called(function, result) ==
  /\ pc = "author"
  /\ Len(calls) < MaxAuthorCalls
  /\ calls' = Append(calls, Call(function, author_text, result))
  /\ UNCHANGED <<author_text, filter_tool, analyzer, candidates, filtered_results,
                 pc, i, runs, others>>

FilterAuthorField ==
  Called("SingleAuthorFilter._analyze_author_field",
         filter_analyze_author_field(filter_tool, author_text))

AnalyzerAuthorField ==
  Called("SingleAuthorAnalyzer.analyze_author_field",
         analyzer_analyze_author_field(analyzer, author_text))

FilterPersonalName ==
  Called("SingleAuthorFilter._looks_like_personal_name",
         filter_looks_like_personal_name(author_text))

AnalyzerPersonalName ==
  Called("SingleAuthorAnalyzer._looks_like_personal_name",
         analyzer_looks_like_personal_name(author_text))

NextAuthor ==
  \/ FilterAuthorField
  \/ AnalyzerAuthorField
  \/ FilterPersonalName
  \/ AnalyzerPersonalName

SpecAuthor == InitAuthor /\ [][NextAuthor]_vars

\* The candidates file has been loaded and the two objects constructed.
InitClassify ==
  /\ candidates \in ListsOver(ShortPool, MaxBatch) \cup {Corpus}
  /\ filter_tool = SingleAuthorFilter
  /\ analyzer = SingleAuthorAnalyzer
  /\ calls = <<>>
  /\ filtered_results = <<>>
  /\ author_text = ""
  /\ pc = "loaded"
  /\ i = 0
  /\ runs = 0
  /\ others_idle

\* Mutant: every result is kept.
qualifies_always(result) == TRUE

\* "if result['is_single_host'] and result['is_scripted'] and
\* result['is_self_written']"
qualifies(result) ==
  result.is_single_host /\ result.is_scripted /\ result.is_self_written

\* Stage 3 calls filter_candidates, or the verification runner starts on the
\* candidates; each program runs once, in either order.
CallFilterCandidates ==
  /\ pc = "loaded" \/ (pc = "verified" /\ runs = 1)
  /\ pc' = "filter"
  /\ i' = 0
  /\ filtered_results' = <<>>
  /\ runs' = runs + 1
  /\ UNCHANGED <<candidates, filter_tool, analyzer, calls, author_text, others>>

\* One iteration of filter_candidates' loop; an exception of
\* filter_single_author leaves filter_candidates.
FilterCandidate ==
  /\ pc = "filter"
  /\ i < Len(candidates)
  /\ calls' = Append(calls, Call("SingleAuthorFilter.filter_single_author",
                                 candidates[i + 1],
                                 filter_single_author(filter_tool, candidates[i + 1])))
  /\ LET r == calls'[Len(calls')].result
     IN /\ filter_tool' = filter_after_call(filter_tool)
        /\ IF r.raised
           THEN /\ pc' = "raised"
                /\ UNCHANGED <<filtered_results, i>>
           ELSE /\ filtered_results' = IF qualifies(r) THEN Append(filtered_results, r)
                                       ELSE filtered_results
                /\ i' = i + 1
                /\ pc' = pc
  /\ UNCHANGED <<candidates, analyzer, author_text, runs, others>>

\* "return filtered_results"
FilterReturn ==
  /\ pc = "filter"
  /\ i = Len(candidates)
  /\ pc' = "filtered"
  /\ UNCHANGED <<candidates, filter_tool, analyzer, calls, filtered_results,
                 author_text, i, runs, others>>

\* The runner starts on the candidates, index after index.
StartVerification ==
  /\ pc = "loaded" \/ (pc \in {"filtered", "raised"} /\ runs = 1)
  /\ pc' = "verify"
  /\ i' = 0
  /\ runs' = runs + 1
  /\ UNCHANGED <<candidates, filter_tool, analyzer, calls, filtered_results,
                 author_text, others>>

\* verify_candidate's call of is_single_author on the next candidate; the
\* runner logs an exception and goes on.
VerifyCandidate ==
  /\ pc = "verify"
  /\ i < Len(candidates)
  /\ calls' = Append(calls, Call("SingleAuthorAnalyzer.is_single_author",
                                 candidates[i + 1],
                                 analyzer_is_single_author(analyzer, candidates[i + 1])))
  /\ analyzer' = analyzer_after_call(analyzer)
  /\ i' = i + 1
  /\ UNCHANGED <<candidates, filter_tool, filtered_results, author_text, pc, runs,
                 others>>

VerificationDone ==
  /\ pc = "verify"
  /\ i = Len(candidates)
  /\ pc' = "verified"
  /\ UNCHANGED <<candidates, filter_tool, analyzer, calls, filtered_results,
                 author_text, i, runs, others>>

NextClassify ==
  \/ CallFilterCandidates
  \/ FilterCandidate
  \/ FilterReturn
  \/ StartVerification
  \/ VerifyCandidate
  \/ VerificationDone

SpecClassify == InitClassify /\ [][NextClassify]_vars

\* --------------------------------------------------- claims on classifiers
\* The logged calls of some functions.
CallsOf(functions) == {k \in DOMAIN calls : calls[k].function \in functions}
AuthorFieldCalls ==
  CallsOf({"SingleAuthorFilter._analyze_author_field",
           "SingleAuthorAnalyzer.analyze_author_field"})
PersonalNameCalls ==
  CallsOf({"SingleAuthorFilter._looks_like_personal_name",
           "SingleAuthorAnalyzer._looks_like_personal_name"})
FilterCalls ==
  {k \in CallsOf({"SingleAuthorFilter.filter_single_author"}) : ~calls[k].result.raised}
VerifyCalls ==
  {k \in CallsOf({"SingleAuthorAnalyzer.is_single_author"}) : ~calls[k].result.raised}

\* C14 (author-score clamping): the author score either variant returns is
\* at least 0 and at most 1, however many indicators the author matches, and
\* it is 0 for an empty author.
C14_AuthorScoreClamped ==
  \A k \in AuthorFieldCalls :
    /\ ~fl_gt(Lit(0), calls[k].result.score)
    /\ ~fl_gt(calls[k].result.score, Lit(20))
    /\ calls[k].argument = "" => calls[k].result.score = Lit(0)

\* Both variants were given an author that matches ten indicators or more
\* of their organization lists, and in stage 3 the penalties had taken the
\* score below 0.
C14_Witness ==
  /\ Len(matched(SingleAuthorFilter.org_indicators, lower(author_text))) >= 10
  /\ Len(matched(SingleAuthorAnalyzer.org_indicators, lower(author_text))) >= 10
  /\ CallsOf({"SingleAuthorAnalyzer.analyze_author_field"}) # {}
  /\ \E k \in CallsOf({"SingleAuthorFilter._analyze_author_field"}) :
       /\ fl_gt(Lit(0), calls[k].result.after_multi)
       /\ calls[k].result.score = Lit(0)

\* What C17 says of a name: its tokens, without a leading title that two
\* tokens or more follow, are two to four, each of them letters only once
\* its trailing periods are gone and starting with a capital, and the
\* lower-cased name holds no non-personal term.
PersonalNameAsStated(name) ==
  LET tokens == split(name)
      titled == /\ Len(tokens) >= 3
                /\ lower(tokens[1]) \in
                     {"dr.", "prof.", "professor", "pastor", "rev.", "reverend"}
      rest == IF titled THEN Tail(tokens) ELSE tokens
  IN /\ Len(rest) \in 2..4
     /\ \A n \in DOMAIN rest :
          LET bare == rstrip(rest[n], ".")
          IN /\ Len(bare) > 0
             /\ \A j \in 1..Len(bare) : isupper(CharAt(bare, j)) \/ islower(CharAt(bare, j))
             /\ isupper(CharAt(bare, 1))
     /\ \A term \in {"podcast", "show", "radio", "broadcast", "media", "network",
                     "crew", "team", "staff", "students", "collective", "group",
                     "university", "college", "center", "institute", "foundation"} :
          ~Contains(lower(name), term)

\* C17 (personal-name heuristic): both _looks_like_personal_name functions
\* answer exactly as stated above; "Dr. John Smith" qualifies and "The Smith
\* Family Podcast Crew" does not.
C17_PersonalNameHeuristic ==
  \A k \in PersonalNameCalls :
    /\ calls[k].result = PersonalNameAsStated(calls[k].argument)
    /\ calls[k].argument = "Dr. John Smith" => calls[k].result
    /\ calls[k].argument = "The Smith Family Podcast Crew" => ~calls[k].result

\* Both functions were asked about a title followed by four capitalised
\* tokens, and said yes.
C17_Witness ==
  /\ author_text = "Prof. A B C D"
  /\ \A function \in {"SingleAuthorFilter._looks_like_personal_name",
                      "SingleAuthorAnalyzer._looks_like_personal_name"} :
       \E k \in CallsOf({function}) : calls[k].result

\* C19 (penalty ceilings): in both variants the organization penalties take
\* at most the organization ceiling off the score and the multi-person
\* penalties at most their ceiling, so that before bonus and clamp the score
\* is at least 1 minus the two ceilings.
C19_PenaltyCeilings ==
  \A k \in AuthorFieldCalls :
    calls[k].argument # "" =>
      /\ ~fl_gt(fl_sub(Lit(20), org_penalty_cap), calls[k].result.after_org)
      /\ ~fl_gt(fl_sub(calls[k].result.after_org, multi_penalty_cap),
                calls[k].result.after_multi)
      /\ ~fl_gt(fl_sub(fl_sub(Lit(20), org_penalty_cap), multi_penalty_cap),
                calls[k].result.after_multi)

\* The results filter_candidates is to return for a list: those with the
\* three verdicts, in the order of the list.
Qualified(list) ==
  SelectSeq([k \in DOMAIN list |-> filter_single_author(SingleAuthorFilter, list[k])],
            LAMBDA r : r.is_single_host /\ r.is_scripted /\ r.is_self_written)

\* C15 (verdicts and qualification): the three verdicts of
\* filter_single_author are the threshold predicates author > 0.4 and
\* single host > 0.3, scripted > 0.4, author > 0.3 and is_single_host; and
\* filter_candidates returns, in input order, exactly the results with all
\* three verdicts.
C15_VerdictPolicy ==
  /\ \A k \in FilterCalls :
       LET r == calls[k].result
       IN /\ r.is_single_host <=>
               fl_gt(r.author_score, Lit(8)) /\ ratio_gt(r.single_host_score, Ratio(3, 10))
          /\ r.is_scripted <=> fl_gt(r.scripted_score, Lit(8))
          /\ r.is_self_written <=> fl_gt(r.author_score, Lit(6)) /\ r.is_single_host
  /\ pc = "filter" => filtered_results = Qualified(SubSeq(candidates, 1, i))
  /\ pc = "filtered" => filtered_results = Qualified(candidates)

\* filter_candidates returned for a list of three with a candidate it
\* drops between two it keeps.
C15_Witness ==
  /\ pc = "filtered"
  /\ Len(candidates) = 3
  /\ Len(filtered_results) = 2
  /\ filtered_results[1].candidate = candidates[1]
  /\ filtered_results[2].candidate = candidates[3]
  /\ candidates[1] # candidates[3]

\* Two calls of one function on one candidate return the same.
SameResults ==
  \A m \in DOMAIN calls : \A n \in DOMAIN calls :
    (calls[m].function = calls[n].function /\ calls[m].argument = calls[n].argument)
      => calls[m].result = calls[n].result

C18_BonusApplied ==
  \A k \in FilterCalls :
    LET supplied == calls[k].argument.author.val
        penalised ==
          filter_analyze_author_field(SingleAuthorFilter, lower(supplied)).after_multi
    IN filter_looks_like_personal_name(supplied) =>
         /\ calls[k].result.author_score = clamp(fl_add(penalised, Lit(4)))
         /\ \E n \in DOMAIN calls[k].result.evidence :
              Contains(calls[k].result.evidence[n], "personal name")

\* A boolean verdict that is a threshold predicate: some threshold for each
\* of two sub-scores, of the values the sub-scores take or below them all,
\* and some boolean function of the two comparisons give the verdict of
\* every point <<double, fraction, verdict>>.
ThresholdPredicate(points) ==
  \E t1 \in {p[1] : p \in points} \cup {Lit(-1)} :
    \E t2 \in {p[2] : p \in points} \cup {Ratio(-1, 1)} :
      \E f \in [BOOLEAN \X BOOLEAN -> BOOLEAN] :
        \A p \in points : p[3] = f[<<fl_gt(p[1], t1), ratio_gt(p[2], t2)>>]

\* C20 (verdicts from sub-scores only): each verdict of the two classifiers
\* is a threshold predicate over the sub-scores, none depends on the
\* weighted score otherwise.
C20_VerdictsFromSubScores ==
  LET r(k) == calls[k].result
  IN /\ ThresholdPredicate({<<r(k).author_score, r(k).content_score, r(k).is_single>> :
                              k \in VerifyCalls})
     /\ ThresholdPredicate({<<r(k).author_score, r(k).single_host_score,
                              r(k).is_single_host>> : k \in FilterCalls})
     /\ ThresholdPredicate({<<r(k).author_score, r(k).single_host_score,
                              r(k).is_self_written>> : k \in FilterCalls})
     /\ ThresholdPredicate({<<r(k).scripted_score, Ratio(0, 1), r(k).is_scripted>> :
                              k \in FilterCalls})

\* The score a result holds, as a double: a score in twentieths or a
\* fraction.
DoubleOf(score) ==
  IF "q" \in DOMAIN score
  THEN fl_quot(big_shl(<<score.e, 0, 0, 0, 4 * score.q>>, 0), 5, -60)
  ELSE fl_quot(big_shl(<<score.num>>, 0), score.den, 0)
\* u <= v for doubles that are not negative
DoubleLe(u, v) ==
  \/ u.m[4] = 0
  \/ /\ v.m[4] # 0
     /\ \/ u.x < v.x
        \/ /\ u.x = v.x
           /\ \A k \in 1..4 : u.m[k] > v.m[k] => \E j \in (k + 1)..4 : u.m[j] < v.m[j]
\* The composed score is no less than the smallest sub-score, no more than
\* the largest, and between 0 and 1.
Convex(composed, subscores) ==
  /\ \E t \in subscores : DoubleLe(DoubleOf(t), composed)
  /\ \E t \in subscores : DoubleLe(composed, DoubleOf(t))
  /\ DoubleLe(composed, DoubleOf(Ratio(1, 1)))

\* C21 (score composition): confidence_score is 0.5 * author + 0.3 * single
\* host + 0.2 * scripted and overall_score is 0.7 * author + 0.3 * content,
\* weights that sum to 1: the composed score lies between the smallest and
\* the largest sub-score, and in [0, 1].
C21_ScoreComposition ==
  /\ \A k \in FilterCalls :
       LET r == calls[k].result
       IN Convex(r.confidence_score,
                 {r.author_score, r.single_host_score, r.scripted_score})
  /\ \A k \in VerifyCalls :
       LET r == calls[k].result
       IN Convex(r.overall_score, {r.author_score, r.content_score})

\* The text the content analyses read: the lower-cased title, a space and
\* the lower-cased description of the candidate of call k.
CombinedText(k) ==
  lower(format_field(Get(calls[k].argument.title, Str("")))
          \o " " \o format_field(Get(calls[k].argument.description, Str(""))))
\* How many of the indicators occur in the text.
Fired(indicators, text) == Cardinality({x \in indicators : Contains(text, x)})
PositiveFired(k) ==
  Fired({"solo", "personal", "individual", "my thoughts", "my podcast", "monologue",
         "lecture", "story", "philosophy", "reflection"}, CombinedText(k))
NegativeFired(k) ==
  Fired({"co-host", "hosts", "team", "together", "panel", "multiple hosts",
         "host and", "hosting with", "co-hosting", "joint hosting"}, CombinedText(k))
AmbiguousFired(k) ==
  Fired({"discussion", "interview", "conversation"}, CombinedText(k))
\* The content score of call k: single_host_score or content_score.
ContentScore(k) ==
  IF "content_score" \in DOMAIN calls[k].result
  THEN calls[k].result.content_score ELSE calls[k].result.single_host_score
\* score = max(0.1, p / (p + n + 0.5 * a)), or 0.5 when nothing fired
ScoreAsStated(score, pn, nn, an) ==
  IF pn + nn + an = 0 THEN score.num * 2 = score.den
  ELSE IF 10 * 2 * pn > 2 * pn + 2 * nn + an
  THEN score.num * (2 * pn + 2 * nn + an) = 2 * pn * score.den
  ELSE score.num * 10 = score.den

\* C22 (single-host content score): with p positive, n negative and a
\* ambiguous indicators in the lower-cased title and description, the score
\* of either variant is 0.5 when none fired and max(0.1, p / (p + n + 0.5 a))
\* otherwise: at least 0.1, at most 1, and 0.1 when p = 0 and another
\* indicator fired.
C22_ContentScore ==
  \A k \in FilterCalls \cup VerifyCalls :
    /\ ScoreAsStated(ContentScore(k), PositiveFired(k), NegativeFired(k),
                     AmbiguousFired(k))
    /\ ContentScore(k).den > 0
    /\ 10 * ContentScore(k).num >= ContentScore(k).den
    /\ ContentScore(k).num <= ContentScore(k).den
    /\ (PositiveFired(k) = 0 /\ NegativeFired(k) + AmbiguousFired(k) > 0)
         => ContentScore(k).num * 10 = ContentScore(k).den

\* Both variants have scored a text where nothing fires, texts with no
\* positive indicator and a negative or only an ambiguous one, and a text
\* where indicators of the three kinds fire.
C22_Witness ==
  \A calls_of \in {FilterCalls, VerifyCalls} :
    /\ \E k \in calls_of :
         PositiveFired(k) + NegativeFired(k) + AmbiguousFired(k) = 0
    /\ \E k \in calls_of : PositiveFired(k) = 0 /\ NegativeFired(k) > 0
    /\ \E k \in calls_of :
         PositiveFired(k) = 0 /\ NegativeFired(k) = 0 /\ AmbiguousFired(k) > 0
    /\ \E k \in calls_of :
         PositiveFired(k) > 0 /\ NegativeFired(k) > 0 /\ AmbiguousFired(k) > 0

\* The scripted indicators that occur in the text of call k.
ScriptedFired(k) ==
  {x \in {"written", "script", "prepared", "composed", "authored", "structured",
          "organized", "planned", "narrative", "story", "lecture", "episode",
          "series", "chronicles", "explores", "recounts", "presents", "delves",
          "investigates", "examines", "analysis", "reflection", "perspective",
          "journey", "history"} : Contains(CombinedText(k), x)}
\* The evidence strings of call k that report a scripted indicator.
ScriptedEvidence(k) ==
  {n \in DOMAIN calls[k].result.evidence :
     Contains(calls[k].result.evidence[n], "Scripted indicator: '")}

\* C23 (scripted-content step function): with k distinct scripted
\* indicators in title and description the scripted score is 0.5, 0.6, 0.75
\* and 0.9 for k = 0, 1, 2 and k >= 3, so it does not decrease with k, and
\* the evidence has exactly one string for each indicator matched.
C23_ScriptedSteps ==
  /\ \A k \in FilterCalls :
       /\ calls[k].result.scripted_score =
            (CASE Cardinality(ScriptedFired(k)) = 0 -> Lit(10)
               [] Cardinality(ScriptedFired(k)) = 1 -> Lit(12)
               [] Cardinality(ScriptedFired(k)) = 2 -> Lit(15)
               [] OTHER -> Lit(18))
       /\ Cardinality(ScriptedEvidence(k)) = Cardinality(ScriptedFired(k))
       /\ \A x \in ScriptedFired(k) :
            Cardinality({n \in ScriptedEvidence(k) :
                           calls[k].result.evidence[n]
                             = "Scripted indicator: '" \o x \o "'"}) = 1
  /\ \A k \in FilterCalls : \A n \in FilterCalls :
       Cardinality(ScriptedFired(k)) <= Cardinality(ScriptedFired(n))
         => ~fl_gt(calls[k].result.scripted_score, calls[n].result.scripted_score)

\* filter_single_author has scored texts with no, one, two and more than
\* three scripted indicators.
C23_Witness ==
  /\ \A count \in 0..2 : \E k \in FilterCalls : Cardinality(ScriptedFired(k)) = count
  /\ \E k \in FilterCalls : Cardinality(ScriptedFired(k)) > 3

\* The results of filter_single_author with the verdict is_single_host, in
\* the order of the list.
SingleHosts(list) ==
  SelectSeq([k \in DOMAIN list |-> filter_single_author(SingleAuthorFilter, list[k])],
            LAMBDA r : r.is_single_host)

\* C28 (the scripted verdict never rejects): the scripted score is one of
\* 0.5, 0.6, 0.75 and 0.9, above the threshold 0.4, so is_scripted is true
\* of every candidate and filter_candidates keeps a candidate if and only
\* if is_single_host is true.
C28_ScriptedNeverRejects ==
  /\ \A k \in FilterCalls :
       /\ calls[k].result.scripted_score \in {Lit(10), Lit(12), Lit(15), Lit(18)}
       /\ calls[k].result.is_scripted
  /\ pc = "filter" => filtered_results = SingleHosts(SubSeq(candidates, 1, i))
  /\ pc = "filtered" => filtered_results = SingleHosts(candidates)

\* filter_candidates has returned for the corpus, with candidates kept,
\* candidates dropped and every step of the scripted score among them.
C28_Witness ==
  /\ pc = "filtered"
  /\ candidates = Corpus
  /\ filtered_results # <<>>
  /\ Len(filtered_results) < Len(candidates)
  /\ \A score \in {Lit(10), Lit(12), Lit(15), Lit(18)} :
       \E k \in FilterCalls : calls[k].result.scripted_score = score

\* C29 (is_self_written carries no information of its own): in every
\* result of filter_single_author is_self_written equals is_single_host,
\* whose author score above 0.4 is above 0.3 as well.
C29_SelfWrittenIsSingleHost ==
  \A k \in FilterCalls :
    calls[k].result.is_self_written <=> calls[k].result.is_single_host

\* Results with both verdicts true, one of them with an author score that
\* is not above 0.5, and a result with an author score above 0.3 that is
\* not a single host.
C29_Witness ==
  /\ \E k \in FilterCalls :
       /\ calls[k].result.is_single_host
       /\ calls[k].result.is_self_written
       /\ ~fl_gt(calls[k].result.author_score, Lit(10))
  /\ \E k \in FilterCalls :
       /\ fl_gt(calls[k].result.author_score, Lit(6))
       /\ ~calls[k].result.is_single_host
       /\ ~calls[k].result.is_self_written

=============================================================================
